---- MODULE Spec2Model ----
(***************************************************************************)
(* Ticketmaster resale notifier: the notification delivery subsystem       *)
(* (NotificationService.send, NotificationManager.send_notification), one  *)
(* check of one event (TicketMonitor.check_event with the TicketScraper    *)
(* calls it makes), the resale filter (check_for_resale_tickets), the       *)
(* inter-cycle wait (TicketMonitor._wait_until_next_check) and the monitor *)
(* loop (TicketMonitor.run) that drives them.                              *)
(*                                                                         *)
(* Results of Python calls are strings: "true" / "false" for the returned  *)
(* boolean, "raised" for an exception (a subclass of Exception) that left  *)
(* the call, "none" while the call has not returned.                       *)
(***************************************************************************)
EXTENDS Integers, Sequences, FiniteSets

VARIABLES
    \* ---- NotificationConfig / NotificationManager / NotificationService
    retry_attempts,   \* NotificationService.retry_attempts
    retry_delay,      \* NotificationService.retry_delay (seconds)
    services,         \* NotificationManager.services: the kind of each service
    mgr_pc,           \* send_notification: "idle", "gathering", "returned"
    mgr_result,       \* what send_notification gave its caller
    mgr_errors,       \* logger.error lines of send_notification (this call)
    mgr_warnings,     \* logger.warning lines of send_notification (this call)
    notification,     \* the Notification built by the call in progress
    svc,              \* per service: the state of its send(notification) task
    \* ---- TicketMonitor.check_event and the TicketScraper it drives
    ce_pc,            \* control point of check_event
    ce_url,           \* its event_url argument
    acquired,         \* BrowserManager resources held (playwright, browser, ...)
    event,            \* what get_event_info returned ("none" for None)
    ft_outcome,       \* how find_tickets ended ("none" before it ran)
    all_tickets,      \* what find_tickets returned
    resale_tickets,   \* what check_for_resale_tickets returned
    notify_calls,     \* send_notification calls made by this check_event
    ce_errors,        \* logger.error lines of this check_event
    ce_result,        \* how check_event ended: "none", "returned", "raised"
    setup_state,      \* BrowserManager.setup of this check: "none", "ok", "raised"
    cleanup_calls,    \* BrowserManager.cleanup calls made by this check
    \* ---- TicketMonitor._wait_until_next_check and the shutdown flag
    check_interval,   \* AppConfig.check_interval, <<min, max>> in 1/20 minute
    shutdown,         \* TicketMonitor.shutdown_event.is_set()
    w_pc,             \* control point of _wait_until_next_check
    wait_seconds,     \* its local wait_seconds
    chunks,           \* its local chunks
    remainder,        \* its local remainder
    chunk_i,          \* iterations of the chunk loop completed
    slept,            \* seconds slept by this call so far
    \* ---- TicketMonitor.run
    event_urls,       \* AppConfig.event_urls
    run_pc,           \* control point of run
    url_i,            \* position of the for loop in event_urls (1-based)
    check_count,      \* TicketMonitor.check_count
    checked,          \* URLs check_event was called with in the current cycle
    loop_errors,      \* "Error in monitoring loop" lines logged by run
    cooldown_left,    \* seconds the post-error sleep still has to run
    \* ---- TicketScraper.find_tickets, step by step
    ft_pc,            \* control point of find_tickets
    ft_sleeps,        \* the asyncio.sleep calls it started: <<what, seconds>>
    ft_shots,         \* the take_screenshot calls it made: <<file, succeeded>>
    ft_items,         \* the list items _simple_resale_check met
    ft_parsed,        \* the number of _parse_ticket_element calls it made
    \* ---- what an observer of one run has seen
    found_count,      \* checks that returned with resale tickets
    notified_count,   \* send_notification calls made by the checks
    cancelled,        \* where the task of run was cancelled ("none": never)
    \* ---- TicketScraper._click_find_tickets
    cf_pc,            \* control point of _click_find_tickets
    cf_i,             \* position of its for loop in selectors (1-based)
    cf_tried,         \* the selectors it probed with is_visible, in order
    cf_click_calls,   \* element.click calls it made
    cf_clicks,        \* element.click calls that returned
    cf_clicked_at,    \* the selector whose click returned (0: none)
    cf_result,        \* what _click_find_tickets returned
    \* ---- TicketScraper._simple_resale_check on the elements of a page
    li_elements,      \* the li[role="button"] elements of the page
    listing_result,   \* whether the scan ran, and the list it returned
    \* ---- TicketMonitor._handle_resale_tickets_found: the alert text
    alert_call,       \* the event and the tickets it is called with
    alert_message,    \* the message it passes to send_notification
    \* ---- cli.async_main: the configuration in effect
    cli_args,         \* the flags given on the command line, per field
    environ,          \* the environment variables set, per field
    config,           \* the AppConfig handed to TicketMonitor
    \* ---- TicketScraper._parse_ticket_element: the price
    price_text,       \* the text of the price element, a sequence of characters
    price,            \* the parsed price
    pe_element,       \* the ticket container handed to _parse_ticket_element
    pe_result         \* what _parse_ticket_element returned for it

notifVars == <<retry_attempts, retry_delay, services, mgr_pc, mgr_result,
               mgr_errors, mgr_warnings, notification, svc>>

checkVars == <<ce_pc, ce_url, acquired, event, ft_outcome, all_tickets,
               resale_tickets, notify_calls, ce_errors, ce_result, setup_state,
               cleanup_calls>>

waitVars == <<check_interval, shutdown, w_pc, wait_seconds, chunks, remainder,
              chunk_i, slept>>

runVars == <<event_urls, run_pc, url_i, check_count, checked, loop_errors,
             cooldown_left>>

\* The variables of the components that stand apart from the monitor loop
scanVars == <<ft_pc, ft_sleeps, ft_shots, ft_items, ft_parsed>>

cfgVars == <<cli_args, environ, config>>

priceVars == <<price_text, price, pe_element, pe_result>>

listingVars == <<li_elements, listing_result>>

alertVars == <<alert_call, alert_message>>

clickVars == <<cf_pc, cf_i, cf_tried, cf_click_calls, cf_clicks, cf_clicked_at,
               cf_result>>

obsVars == <<found_count, notified_count, cancelled>>

apartVars == <<scanVars, cfgVars, priceVars, listingVars, alertVars, clickVars>>

otherVars == <<apartVars, obsVars>>

vars == <<notifVars, checkVars, waitVars, runVars, otherVars>>

----------------------------------------------------------------------------
(* Bounds of the model *)

MaxAttempts == 3      \* largest configured retry_attempts explored
MaxServices == 2      \* longest NotificationManager.services explored
MaxItems == 2         \* most list items on a listing page
MaxTickets == 3       \* longest find_tickets result given to the filter
MaxIntervalTicks == 8 \* largest check_interval bound, in 1/20 minute
NegIntervalTicks == 2 \* most negative check_interval bound, in 1/20 minute

(* Program constants *)

DefaultRetryAttempts == 3 \* NotificationConfig.retry_attempts
DefaultRetryDelay == 5    \* NotificationConfig.retry_delay
FirstAttempt == 1         \* range(1, retry_attempts + 1) starts at 1

RetryAttemptsDomain == {-1} \cup (0..MaxAttempts)
RetryDelayDomain == {-1, 0, 1, DefaultRetryDelay}

\* A service is either a NotificationService subclass using the inherited
\* send (the retry wrapper around _send_impl), or an object whose send is
\* replaced as a whole (the AsyncMock services of the manager's tests).
ServiceKinds == {"retrying", "mock"}

NoNotification ==
    [title |-> "none", message |-> [count |-> 0, url |-> "none"],
     priority |-> 0, tags |-> {}]

\* The Notification the manager's direct callers ask for (priority defaults to 3)
Messages ==
    {[title |-> "Test", message |-> [count |-> 0, url |-> "none"],
      priority |-> 3, tags |-> {}]}

SeqsUpTo(S, n) == UNION {[1..k -> S] : k \in 0..n}

----------------------------------------------------------------------------
(* NotificationService.send *)

LastAttemptAtLeastOne(n) == IF n < FirstAttempt THEN FirstAttempt ELSE n

\* for attempt in range(1, self.retry_attempts + 1)
LastAttempt(n) == n

InRange(a, n) == FirstAttempt <= a /\ a <= LastAttempt(n)

IsFinalAttemptEarly(a, n) == a = n - 1

\* if attempt == self.retry_attempts
IsFinalAttempt(a, n) == a = n

BackoffDelayConstant(d, a) == d

\* delay = self.retry_delay * attempt
BackoffDelay(d, a) == d * a

\* The task gather() made for service.send(notification), before it first runs
PendingTask(msg) ==
    [pc |-> "pending", attempt |-> 0, outcomes |-> <<>>, sleeps |-> <<>>,
     errors |-> 0, warnings |-> 0, result |-> "none", notif |-> msg,
     send_calls |-> 0, responses |-> <<>>]

\* Number of times _send_impl was invoked by the task t
ImplCalls(t) == Len(t.outcomes) + (IF t.pc = "awaiting_impl" THEN 1 ELSE 0)

\* The top of the for loop with loop variable a: the body runs (and awaits
\* _send_impl) while a is in the range, line 41 returns False after it.
LoopTop(t, a) ==
    IF InRange(a, retry_attempts)
    THEN [t EXCEPT !.pc = "awaiting_impl", !.attempt = a]
    ELSE [t EXCEPT !.pc = "done", !.result = "false"]

OnFinalFailureReraise(t) ==
    [t EXCEPT !.pc = "done", !.result = "raised"]

\* except Exception on the last attempt: logger.error(...); return False
OnFinalFailure(t) ==
    [t EXCEPT !.pc = "done", !.errors = @ + 1, !.result = "false"]

\* except Exception with attempts left: logger.warning(...); asyncio.sleep(delay)
OnRetryableFailure(t) ==
    [t EXCEPT !.pc = "sleeping", !.warnings = @ + 1,
              !.sleeps = Append(@, BackoffDelay(retry_delay, t.attempt))]

\* The send task of service s runs for the first time
SendStart(s) ==
    /\ mgr_pc = "gathering"
    /\ s \in DOMAIN svc
    /\ svc[s].pc = "pending"
    /\ services[s] = "retrying"
    /\ svc' = [svc EXCEPT ![s] = LoopTop([@ EXCEPT !.send_calls = @ + 1], FirstAttempt)]
    /\ UNCHANGED <<retry_attempts, retry_delay, services, mgr_pc, mgr_result,
                   mgr_errors, mgr_warnings, notification>>
    /\ UNCHANGED <<checkVars, waitVars, runVars, otherVars>>

ImplReturnsFalseRetried(s, v) ==
    /\ s \in DOMAIN svc
    /\ svc[s].pc = "awaiting_impl"
    /\ v \in {"true", "false"}
    /\ LET t == [svc[s] EXCEPT !.outcomes = Append(@, v)]
       IN svc' = [svc EXCEPT ![s] =
                     IF v = "true"
                     THEN [t EXCEPT !.pc = "done", !.result = v]
                     ELSE IF IsFinalAttempt(t.attempt, retry_attempts)
                          THEN OnFinalFailure(t)
                          ELSE OnRetryableFailure(t)]
    /\ UNCHANGED <<retry_attempts, retry_delay, services, mgr_pc, mgr_result,
                   mgr_errors, mgr_warnings, notification>>
    /\ UNCHANGED <<checkVars, waitVars, runVars, otherVars>>

\* return await self._send_impl(notification): _send_impl returned v
ImplReturns(s, v) ==
    /\ s \in DOMAIN svc
    /\ svc[s].pc = "awaiting_impl"
    /\ v \in {"true", "false"}
    /\ svc' = [svc EXCEPT ![s] = [@ EXCEPT !.pc = "done", !.result = v,
                                           !.outcomes = Append(@, v)]]
    /\ UNCHANGED <<retry_attempts, retry_delay, services, mgr_pc, mgr_result,
                   mgr_errors, mgr_warnings, notification>>
    /\ UNCHANGED <<checkVars, waitVars, runVars, otherVars>>

\* _send_impl raised an Exception
ImplRaises(s) ==
    /\ s \in DOMAIN svc
    /\ svc[s].pc = "awaiting_impl"
    /\ LET t == [svc[s] EXCEPT !.outcomes = Append(@, "raise")]
       IN svc' = [svc EXCEPT ![s] =
                     IF IsFinalAttempt(t.attempt, retry_attempts)
                     THEN OnFinalFailure(t)
                     ELSE OnRetryableFailure(t)]
    /\ UNCHANGED <<retry_attempts, retry_delay, services, mgr_pc, mgr_result,
                   mgr_errors, mgr_warnings, notification>>
    /\ UNCHANGED <<checkVars, waitVars, runVars, otherVars>>

\* await asyncio.sleep(delay) is over: the loop takes its next value
SleepDone(s) ==
    /\ s \in DOMAIN svc
    /\ svc[s].pc = "sleeping"
    /\ svc' = [svc EXCEPT ![s] = LoopTop(@, @.attempt + 1)]
    /\ UNCHANGED <<retry_attempts, retry_delay, services, mgr_pc, mgr_result,
                   mgr_errors, mgr_warnings, notification>>
    /\ UNCHANGED <<checkVars, waitVars, runVars, otherVars>>

\* The status codes the push endpoint answers a POST with
HttpStatuses == {200, 204, 301, 404, 500}

\* Response.is_success, what raise_for_status tests: a 2xx status
IsSuccess(status) == 200 <= status /\ status <= 299

NtfyOutcomeUnchecked(status) == "true"

\* response.raise_for_status(); return True
NtfyOutcome(status) == IF IsSuccess(status) THEN "true" ELSE "raise"

\* NtfyNotificationService._send_impl: client.post answered with status
NtfySendImpl(s, status) ==
    /\ s \in DOMAIN svc
    /\ svc[s].pc = "awaiting_impl"
    /\ services[s] = "retrying"
    /\ LET cur == svc[s]
           t == [cur EXCEPT !.outcomes = Append(@, NtfyOutcome(status)),
                            !.responses = Append(@, <<cur.attempt, status>>)]
       IN svc' = [svc EXCEPT ![s] =
                     IF NtfyOutcome(status) = "true"
                     THEN [t EXCEPT !.pc = "done", !.result = "true"]
                     ELSE IF IsFinalAttempt(t.attempt, retry_attempts)
                          THEN OnFinalFailure(t)
                          ELSE OnRetryableFailure(t)]
    /\ UNCHANGED <<retry_attempts, retry_delay, services, mgr_pc, mgr_result,
                   mgr_errors, mgr_warnings, notification>>
    /\ UNCHANGED <<checkVars, waitVars, runVars, otherVars>>

\* A service whose send is replaced as a whole: it returns a value or raises
MockSend(s, r) ==
    /\ mgr_pc = "gathering"
    /\ s \in DOMAIN svc
    /\ svc[s].pc = "pending"
    /\ services[s] = "mock"
    /\ r \in {"true", "false", "raised"}
    /\ svc' = [svc EXCEPT ![s] = [@ EXCEPT !.pc = "done", !.result = r,
                                           !.send_calls = @ + 1]]
    /\ UNCHANGED <<retry_attempts, retry_delay, services, mgr_pc, mgr_result,
                   mgr_errors, mgr_warnings, notification>>
    /\ UNCHANGED <<checkVars, waitVars, runVars, otherVars>>

----------------------------------------------------------------------------
(* NotificationManager.send_notification *)

DispatchTargetsFirstOnly(svcs) == IF svcs = <<>> THEN {} ELSE {1}

\* *(service.send(notification) for service in self.services)
DispatchTargets(svcs) == 1..Len(svcs)

ReturnExceptionsOff == FALSE

\* asyncio.gather(..., return_exceptions=True)
ReturnExceptions == TRUE

Raised(tasks) == {s \in DOMAIN tasks : tasks[s].result = "raised"}

\* gather's future is done: with return_exceptions every task has finished;
\* without it the first exception of a task ends the wait at once.
GatherDone(tasks) ==
    \/ \A s \in DOMAIN tasks : tasks[s].pc = "done"
    \/ ~ReturnExceptions /\ Raised(tasks) # {}

AnySuccessAll(tasks) ==
    IF \A s \in DOMAIN tasks : tasks[s].result = "true" THEN "true" ELSE "false"

\* any(not isinstance(r, Exception) and r for r in results)
AnySuccess(tasks) ==
    IF \E s \in DOMAIN tasks : tasks[s].result = "true" THEN "true" ELSE "false"

\* send_notification(title, message, ...) is called with message msg
CallSendNotification(msg) ==
    /\ mgr_errors' = 0
    /\ IF services = <<>>
       THEN \* logger.warning("No notification services configured"); return False
            /\ mgr_pc' = "returned"
            /\ mgr_result' = "false"
            /\ mgr_warnings' = 1
            /\ notification' = NoNotification
            /\ svc' = <<>>
       ELSE /\ mgr_pc' = "gathering"
            /\ mgr_result' = "none"
            /\ mgr_warnings' = 0
            /\ notification' = msg
            /\ svc' = [s \in DispatchTargets(services) |-> PendingTask(msg)]
    /\ UNCHANGED <<retry_attempts, retry_delay, services>>

\* await asyncio.gather(...) returns; failures are logged; the result is made
GatherReturns ==
    /\ mgr_pc = "gathering"
    /\ GatherDone(svc)
    /\ mgr_pc' = "returned"
    /\ IF ~ReturnExceptions /\ Raised(svc) # {}
       THEN /\ mgr_result' = "raised"
            /\ mgr_errors' = mgr_errors
       ELSE /\ mgr_result' = AnySuccess(svc)
            /\ mgr_errors' = mgr_errors + Cardinality(Raised(svc))
    /\ UNCHANGED <<retry_attempts, retry_delay, services, mgr_warnings,
                   notification, svc>>
    /\ UNCHANGED <<checkVars, waitVars, runVars, otherVars>>

\* A caller of the manager (its tests call it directly)
EnvSendNotification ==
    /\ mgr_pc \in {"idle", "returned"}
    /\ \E msg \in Messages : CallSendNotification(msg)
    /\ UNCHANGED <<checkVars, waitVars, runVars, otherVars>>

----------------------------------------------------------------------------
(* TicketScraper: session, get_event_info, find_tickets,                    *)
(* check_for_resale_tickets                                                 *)

\* BrowserManager.setup acquires these in this order
Resources == <<"playwright", "browser", "context", "page">>

Prefix(n) == {Resources[i] : i \in 1..n}

\* What setup holds when its stage-th step raised: 1 async_playwright().start,
\* 2 chromium.launch, 3 new_context, 4 add_init_script, 5 new_page
HeldWhenSetupRaises(stage) ==
    Prefix(IF stage - 1 < 3 THEN stage - 1 ELSE 3)

SetupStages == 1..5

\* cleanup closes page, context, browser, playwright in this order; when the
\* i-th close raises, it and the ones after it are not released
CleanupOrder == <<"page", "context", "browser", "playwright">>

HeldWhenCleanupRaises(i) == {CleanupOrder[j] : j \in i..Len(CleanupOrder)}

\* One li[role="button"] of the listing page: whether one of its spans reads
\* exactly "Verified Resale Ticket", and the dd next to its "Section" dt
\* ("none" when there is none)
ListItems == [verified : BOOLEAN, section : {"none", "A"}]

\* Ticket(event=event, section=section_text or "N/A", row=None, price=None,
\*        is_verified_resale=True, quantity=1); find_tickets passes event = None
SimpleTicket(item) ==
    [event |-> "none",
     section |-> IF item.section = "none" THEN "N/A" ELSE item.section,
     row |-> "none", price |-> "none", quantity |-> 1,
     is_verified_resale |-> TRUE]

RECURSIVE SimpleResaleCheck(_)
\* _simple_resale_check: one Ticket per list item that has the marker span
SimpleResaleCheck(items) ==
    IF items = <<>> THEN <<>>
    ELSE (IF Head(items).verified THEN <<SimpleTicket(Head(items))>> ELSE <<>>)
         \o SimpleResaleCheck(Tail(items))

FindTicketsOutcomes == {"error", "button_not_found", "scanned"}

\* find_tickets: [] when a step raised (caught at the top level) or when no
\* reveal button was clicked, else the result of the simple scan
FindTicketsResult(outcome, items) ==
    IF outcome = "scanned" THEN SimpleResaleCheck(items) ELSE <<>>

KeepTicketAlways(t) == TRUE

\* if t.is_verified_resale
KeepTicket(t) == t.is_verified_resale

RECURSIVE FilterResale(_)
\* [t for t in all_tickets if t.is_verified_resale]
FilterResale(tickets) ==
    IF tickets = <<>> THEN <<>>
    ELSE (IF KeepTicket(Head(tickets)) THEN <<Head(tickets)>> ELSE <<>>)
         \o FilterResale(Tail(tickets))

----------------------------------------------------------------------------
(* TicketMonitor.check_event *)

EventUrls == {"url1", "url2"}

EventNames == {"none", "Test Event"}

NoEvent == [url |-> "none", name |-> "none"]

\* _handle_resale_tickets_found: the alert for the tickets found
AlertFor(ev, tickets) ==
    [title |-> "Resale Tickets Available!",
     message |-> [count |-> Len(tickets), url |-> ev.url],
     priority |-> 4, tags |-> {"ticket", "warning"}]

ShouldNotifyAlways(tickets) == TRUE

\* if resale_tickets:
ShouldNotify(tickets) == tickets # <<>>

CheckEventReraises == FALSE

\* except Exception as e: logger.error(...) around the body of check_event
CheckEventCatches == TRUE

\* How check_event ends when an exception reached its try statement
EndAfterException == IF CheckEventCatches THEN "returned" ELSE "raised"

\* The body of check_event is entered with event_url = url
CheckEventBegin(url) ==
    /\ ce_pc' = "entering"
    /\ ce_url' = url
    /\ event' = NoEvent
    /\ ft_outcome' = "none"
    /\ all_tickets' = <<>>
    /\ resale_tickets' = <<>>
    /\ notify_calls' = 0
    /\ ce_errors' = 0
    /\ ce_result' = "none"
    /\ setup_state' = "none"
    /\ cleanup_calls' = 0
    /\ UNCHANGED acquired

\* await monitor.check_event(event_url), called on its own
CheckEventCall(url) ==
    /\ ce_pc \in {"idle", "returned"}
    /\ CheckEventBegin(url)
    /\ UNCHANGED <<notifVars, waitVars, runVars, otherVars>>

\* async with TicketScraper(...) as scraper: setup completed
SetupOk ==
    /\ ce_pc = "entering"
    /\ acquired' = Prefix(Len(Resources))
    /\ setup_state' = "ok"
    /\ ce_pc' = "get_event_info"
    /\ UNCHANGED <<ce_url, event, ft_outcome, all_tickets, resale_tickets,
                   notify_calls, ce_errors, ce_result, cleanup_calls,
                   notifVars, waitVars, runVars, otherVars>>

\* setup raised in __aenter__: __aexit__ does not run, the except clause of
\* check_event logs the exception
SetupRaises(stage) ==
    /\ ce_pc = "entering"
    /\ acquired' = HeldWhenSetupRaises(stage)
    /\ setup_state' = "raised"
    /\ ce_errors' = ce_errors + 1
    /\ ce_pc' = "returned"
    /\ ce_result' = EndAfterException
    /\ UNCHANGED <<ce_url, event, ft_outcome, all_tickets, resale_tickets,
                   notify_calls, cleanup_calls, notifVars, waitVars, runVars,
                   otherVars>>

\* event = await scraper.get_event_info(event_url): None when navigation or
\* the cookie handling raised, else an Event; if not event: log, return
GetEventInfo(ok, name) ==
    /\ ce_pc = "get_event_info"
    /\ IF ok
       THEN /\ event' = [url |-> ce_url, name |-> name]
            /\ ce_pc' = "find_tickets"
            /\ ce_errors' = ce_errors
       ELSE /\ event' = NoEvent
            /\ ce_pc' = "exiting"
            /\ ce_errors' = ce_errors + 1
    /\ UNCHANGED <<ce_url, acquired, ft_outcome, all_tickets, resale_tickets,
                   notify_calls, ce_result, setup_state, cleanup_calls,
                   notifVars, waitVars, runVars, otherVars>>

\* all_tickets = await self.find_tickets(event_url)
FindTickets(outcome, items) ==
    /\ ce_pc = "find_tickets"
    /\ ft_outcome' = outcome
    /\ all_tickets' = FindTicketsResult(outcome, items)
    /\ ce_pc' = "filtering"
    /\ UNCHANGED <<ce_url, acquired, event, resale_tickets, notify_calls,
                   ce_errors, ce_result, setup_state, cleanup_calls,
                   notifVars, waitVars, runVars, otherVars>>

CheckForResaleTicketsUnlessShutdown ==
    /\ ce_pc = "filtering"
    /\ resale_tickets' = FilterResale(all_tickets)
    /\ ce_pc' = IF ShouldNotify(resale_tickets') /\ ~shutdown
                THEN "handle" ELSE "exiting"
    /\ UNCHANGED <<ce_url, acquired, event, ft_outcome, all_tickets,
                   notify_calls, ce_errors, ce_result, setup_state,
                   cleanup_calls, notifVars, waitVars, runVars, otherVars>>

\* return [t for t in all_tickets if t.is_verified_resale], then the branch
\* of check_event on the result
CheckForResaleTicketsReturns ==
    /\ ce_pc = "filtering"
    /\ resale_tickets' = FilterResale(all_tickets)
    /\ ce_pc' = IF ShouldNotify(resale_tickets') THEN "handle" ELSE "exiting"
    /\ UNCHANGED <<ce_url, acquired, event, ft_outcome, all_tickets,
                   notify_calls, ce_errors, ce_result, setup_state,
                   cleanup_calls, notifVars, waitVars, runVars, otherVars>>

HandleResaleTicketsFoundOnce ==
    /\ ce_pc = "handle"
    /\ IF notified_count = 0
       THEN /\ CallSendNotification(AlertFor(event, resale_tickets))
            /\ notify_calls' = notify_calls + 1
            /\ ce_pc' = "awaiting_send"
       ELSE /\ ce_pc' = "exiting"
            /\ UNCHANGED <<notify_calls, notifVars>>
    /\ UNCHANGED <<ce_url, acquired, event, ft_outcome, all_tickets,
                   resale_tickets, ce_errors, ce_result, setup_state,
                   cleanup_calls, waitVars, runVars, otherVars>>

\* _handle_resale_tickets_found up to await send_notification(...)
HandleResaleTicketsFound ==
    /\ ce_pc = "handle"
    /\ CallSendNotification(AlertFor(event, resale_tickets))
    /\ notify_calls' = notify_calls + 1
    /\ ce_pc' = "awaiting_send"
    /\ UNCHANGED <<ce_url, acquired, event, ft_outcome, all_tickets,
                   resale_tickets, ce_errors, ce_result, setup_state,
                   cleanup_calls, waitVars, runVars, otherVars>>

\* send_notification is back: its value is dropped, the alert is logged and
\* the async with block is left (an exception would leave it too)
SendNotificationReturned ==
    /\ ce_pc = "awaiting_send"
    /\ mgr_pc = "returned"
    /\ ce_pc' = "exiting"
    /\ ce_errors' = ce_errors + (IF mgr_result = "raised" THEN 1 ELSE 0)
    /\ UNCHANGED <<ce_url, acquired, event, ft_outcome, all_tickets,
                   resale_tickets, notify_calls, ce_result, setup_state,
                   cleanup_calls, notifVars, waitVars, runVars, otherVars>>

\* __aexit__: browser_manager.cleanup() released everything
CleanupOk ==
    /\ ce_pc = "exiting"
    /\ acquired' = {}
    /\ cleanup_calls' = cleanup_calls + 1
    /\ ce_pc' = "returned"
    /\ ce_result' = "returned"
    /\ UNCHANGED <<ce_url, event, ft_outcome, all_tickets, resale_tickets,
                   notify_calls, ce_errors, setup_state, notifVars, waitVars,
                   runVars, otherVars>>

\* __aexit__: the i-th close of cleanup raised; check_event logs it
CleanupRaises(i) ==
    /\ ce_pc = "exiting"
    /\ acquired' = HeldWhenCleanupRaises(i)
    /\ cleanup_calls' = cleanup_calls + 1
    /\ ce_errors' = ce_errors + 1
    /\ ce_pc' = "returned"
    /\ ce_result' = EndAfterException
    /\ UNCHANGED <<ce_url, event, ft_outcome, all_tickets, resale_tickets,
                   notify_calls, setup_state, notifVars, waitVars, runVars,
                   otherVars>>

----------------------------------------------------------------------------
(* TicketMonitor._wait_until_next_check and _handle_shutdown.               *)
(* Minutes are counted in twentieths (0.05 minute = 3 seconds), seconds in  *)
(* whole seconds.                                                           *)

SecondsPerMinute == 60    \* wait_seconds = wait_minutes * 60
ChunkSize == 10           \* chunk_size = 10  # seconds

Lower(iv) == IF iv[1] <= iv[2] THEN iv[1] ELSE iv[2]
Upper(iv) == IF iv[1] <= iv[2] THEN iv[2] ELSE iv[1]

\* random.uniform(min_interval, max_interval): a + (b - a) * random()
UniformDraws(iv) == Lower(iv)..Upper(iv)

\* wait_seconds = wait_minutes * 60, wait_minutes in twentieths
WaitSecondsOf(wait_minutes) == (wait_minutes * SecondsPerMinute) \div 20

ChunksOfRoundedUp(ws) == (ws + ChunkSize - 1) \div ChunkSize

\* chunks = int(wait_seconds // chunk_size)
ChunksOf(ws) == ws \div ChunkSize

\* remainder = wait_seconds % chunk_size
RemainderOf(ws) == ws % ChunkSize

HandleShutdownToggles ==
    /\ shutdown' = ~shutdown
    /\ UNCHANGED <<check_interval, w_pc, wait_seconds, chunks, remainder,
                   chunk_i, slept, notifVars, checkVars, runVars, otherVars>>

\* signal handler: self.shutdown_event.set()
HandleShutdown ==
    /\ shutdown' = TRUE
    /\ UNCHANGED <<check_interval, w_pc, wait_seconds, chunks, remainder,
                   chunk_i, slept, notifVars, checkVars, runVars, otherVars>>

\* The body of _wait_until_next_check is entered: the locals are computed
WaitBegin(wait_minutes) ==
    /\ wait_minutes \in UniformDraws(check_interval)
    /\ wait_seconds' = WaitSecondsOf(wait_minutes)
    /\ chunks' = ChunksOf(wait_seconds')
    /\ remainder' = RemainderOf(wait_seconds')
    /\ chunk_i' = 0
    /\ slept' = 0
    /\ w_pc' = "chunk_loop"
    /\ UNCHANGED <<check_interval, shutdown>>

\* await monitor._wait_until_next_check(), called on its own
WaitCall(wait_minutes) ==
    /\ w_pc \in {"idle", "returned"}
    /\ WaitBegin(wait_minutes)
    /\ UNCHANGED <<notifVars, checkVars, runVars, otherVars>>

WaitLoopTopUnchecked ==
    /\ w_pc = "chunk_loop"
    /\ w_pc' = IF chunk_i < chunks THEN "chunk_sleep"
               ELSE (IF remainder > 0 THEN "remainder_sleep" ELSE "returned")
    /\ UNCHANGED <<check_interval, shutdown, wait_seconds, chunks, remainder,
                   chunk_i, slept, notifVars, checkVars, runVars, otherVars>>

\* for _ in range(chunks): if shutdown: return; await asyncio.sleep(chunk_size)
\* and, after the loop, if remainder > 0 and not shutdown: await sleep(remainder)
WaitLoopTop ==
    /\ w_pc = "chunk_loop"
    /\ w_pc' = IF chunk_i < chunks
               THEN (IF shutdown THEN "returned" ELSE "chunk_sleep")
               ELSE (IF remainder > 0 /\ ~shutdown THEN "remainder_sleep"
                     ELSE "returned")
    /\ UNCHANGED <<check_interval, shutdown, wait_seconds, chunks, remainder,
                   chunk_i, slept, notifVars, checkVars, runVars, otherVars>>

\* asyncio.sleep(chunk_size) is over
ChunkSleepDone ==
    /\ w_pc = "chunk_sleep"
    /\ slept' = slept + ChunkSize
    /\ chunk_i' = chunk_i + 1
    /\ w_pc' = "chunk_loop"
    /\ UNCHANGED <<check_interval, shutdown, wait_seconds, chunks, remainder,
                   notifVars, checkVars, runVars, otherVars>>

\* asyncio.sleep(remainder) is over
RemainderSleepDone ==
    /\ w_pc = "remainder_sleep"
    /\ slept' = slept + remainder
    /\ w_pc' = "returned"
    /\ UNCHANGED <<check_interval, shutdown, wait_seconds, chunks, remainder,
                   chunk_i, notifVars, checkVars, runVars, otherVars>>

----------------------------------------------------------------------------
(* TicketMonitor.run *)

MaxUrls == 2         \* longest AppConfig.event_urls explored
MaxCycles == 2       \* most loop iterations started in one run
CooldownStep == 20   \* seconds by which the time of the cooldown advances

CooldownSeconds == 60     \* asyncio.sleep(60) / timeout=60

NextIndexSkipping(i) == i + 2

\* for event_url in self.config.event_urls: the next list position
NextIndex(i) == i + 1

\* run() is called: return at once when there is no event URL
RunStart ==
    /\ run_pc = "start"
    /\ run_pc' = IF event_urls = <<>> THEN "stopped" ELSE "while_top"
    /\ UNCHANGED <<event_urls, url_i, check_count, checked, loop_errors,
                   cooldown_left, notifVars, checkVars, waitVars, otherVars>>

RunStopIgnored ==
    /\ run_pc = "while_top"
    /\ shutdown
    /\ url_i' = 1
    /\ checked' = <<>>
    /\ run_pc' = "for_top"
    /\ UNCHANGED <<event_urls, check_count, loop_errors, cooldown_left,
                   notifVars, checkVars, waitVars, otherVars>>

\* while not self.shutdown_event.is_set(): the loop ends
RunStop ==
    /\ run_pc = "while_top"
    /\ shutdown
    /\ run_pc' = "stopped"
    /\ UNCHANGED <<event_urls, url_i, check_count, checked, loop_errors,
                   cooldown_left, notifVars, checkVars, waitVars, otherVars>>

RunNewCycleUncounted ==
    /\ run_pc = "while_top"
    /\ ~shutdown
    /\ check_count < MaxCycles
    /\ check_count' = check_count
    /\ url_i' = 1
    /\ checked' = <<>>
    /\ run_pc' = "for_top"
    /\ UNCHANGED <<event_urls, loop_errors, cooldown_left, notifVars,
                   checkVars, waitVars, otherVars>>

\* while not self.shutdown_event.is_set(): self.check_count += 1, and the
\* for loop over the event URLs starts
RunNewCycle ==
    /\ run_pc = "while_top"
    /\ ~shutdown
    /\ check_count < MaxCycles
    /\ check_count' = check_count + 1
    /\ url_i' = 1
    /\ checked' = <<>>
    /\ run_pc' = "for_top"
    /\ UNCHANGED <<event_urls, loop_errors, cooldown_left, notifVars,
                   checkVars, waitVars, otherVars>>

RunCheckEventUnguarded ==
    /\ run_pc = "for_top"
    /\ url_i <= Len(event_urls)
    /\ CheckEventBegin(event_urls[url_i])
    /\ checked' = Append(checked, event_urls[url_i])
    /\ run_pc' = "checking"
    /\ UNCHANGED <<event_urls, url_i, check_count, loop_errors, cooldown_left,
                   notifVars, waitVars, otherVars>>

\* for event_url in ...: if shutdown: break; await self.check_event(event_url)
RunCheckEvent ==
    /\ run_pc = "for_top"
    /\ url_i <= Len(event_urls)
    /\ ~shutdown
    /\ CheckEventBegin(event_urls[url_i])
    /\ checked' = Append(checked, event_urls[url_i])
    /\ run_pc' = "checking"
    /\ UNCHANGED <<event_urls, url_i, check_count, loop_errors, cooldown_left,
                   notifVars, waitVars, otherVars>>

\* The for loop is left: the list is exhausted, or break on the shutdown flag
RunLeaveFor ==
    /\ run_pc = "for_top"
    /\ (url_i > Len(event_urls) \/ shutdown)
    /\ run_pc' = "after_for"
    /\ UNCHANGED <<event_urls, url_i, check_count, checked, loop_errors,
                   cooldown_left, notifVars, checkVars, waitVars, otherVars>>

\* except Exception as e: logger.error("Error in monitoring loop"), then the
\* 60-second sleep unless the shutdown flag is set
OnLoopError ==
    /\ loop_errors' = loop_errors + 1
    /\ IF shutdown
       THEN run_pc' = "while_top" /\ cooldown_left' = cooldown_left
       ELSE run_pc' = "cooldown" /\ cooldown_left' = CooldownSeconds

\* The frame of check_event and the frames of the calls it made are gone;
\* what the session of this check left open stays open (nothing refers to
\* its BrowserManager any more: __aenter__ makes a new one for every check)
CheckEventFrameDropped ==
    /\ ce_pc' = "idle"
    /\ ce_url' = "none"
    /\ event' = NoEvent
    /\ ft_outcome' = "none"
    /\ all_tickets' = <<>>
    /\ resale_tickets' = <<>>
    /\ notify_calls' = 0
    /\ ce_errors' = 0
    /\ ce_result' = "none"
    /\ setup_state' = "none"
    /\ cleanup_calls' = 0
    /\ mgr_pc' = "idle"
    /\ mgr_result' = "none"
    /\ mgr_errors' = 0
    /\ mgr_warnings' = 0
    /\ notification' = NoNotification
    /\ svc' = <<>>
    /\ UNCHANGED <<acquired, retry_attempts, retry_delay, services>>

\* check_event is back: the for loop goes on, unless check_event raised
CheckEventIsBack ==
    /\ run_pc = "checking"
    /\ ce_pc = "returned"
    /\ ce_result # "cancelled"
    /\ IF ce_result = "raised"
       THEN OnLoopError /\ url_i' = url_i
       ELSE /\ url_i' = NextIndex(url_i)
            /\ run_pc' = "for_top"
            /\ UNCHANGED <<loop_errors, cooldown_left>>
    /\ CheckEventFrameDropped
    /\ UNCHANGED <<event_urls, check_count, checked, waitVars, apartVars>>

RunCheckEventDone == CheckEventIsBack /\ UNCHANGED obsVars

\* The same step, with the observer counting what the check did
RunCheckEventObserved ==
    /\ CheckEventIsBack
    /\ found_count' = found_count + (IF resale_tickets # <<>> THEN 1 ELSE 0)
    /\ notified_count' = notified_count + notify_calls
    /\ UNCHANGED cancelled

\* if not shutdown and self.config.event_urls: await _wait_until_next_check()
RunWait(wait_minutes) ==
    /\ run_pc = "after_for"
    /\ ~shutdown /\ event_urls # <<>>
    /\ WaitBegin(wait_minutes)
    /\ run_pc' = "waiting"
    /\ UNCHANGED <<event_urls, url_i, check_count, checked, loop_errors,
                   cooldown_left, notifVars, checkVars, otherVars>>

\* ... and a statement of _wait_until_next_check before its first sleep
\* raises (unpacking check_interval, random.uniform, datetime.fromtimestamp:
\* a check_interval that is no pair of numbers, or too large for a timestamp)
RunWaitRaises ==
    /\ run_pc = "after_for"
    /\ ~shutdown /\ event_urls # <<>>
    /\ UNCHANGED waitVars
    /\ OnLoopError
    /\ UNCHANGED <<event_urls, url_i, check_count, checked, notifVars,
                   checkVars, otherVars>>

\* The shutdown flag is set: no wait, back to the while condition
RunSkipWait ==
    /\ run_pc = "after_for"
    /\ ~(~shutdown /\ event_urls # <<>>)
    /\ run_pc' = "while_top"
    /\ UNCHANGED <<event_urls, url_i, check_count, checked, loop_errors,
                   cooldown_left, notifVars, checkVars, waitVars, otherVars>>

\* _wait_until_next_check is back: its frame is gone
RunWaitDone ==
    /\ run_pc = "waiting"
    /\ w_pc = "returned"
    /\ run_pc' = "while_top"
    /\ w_pc' = "idle"
    /\ wait_seconds' = 0
    /\ chunks' = 0
    /\ remainder' = 0
    /\ chunk_i' = 0
    /\ slept' = 0
    /\ UNCHANGED <<event_urls, url_i, check_count, checked, loop_errors,
                   cooldown_left, check_interval, shutdown, notifVars,
                   checkVars, otherVars>>

\* Time passes while run is in wait_for(shield(sleep(60)), timeout=60)
CooldownTick ==
    /\ run_pc = "cooldown"
    /\ cooldown_left > 0
    /\ cooldown_left' = IF cooldown_left > CooldownStep
                        THEN cooldown_left - CooldownStep ELSE 0
    /\ UNCHANGED <<event_urls, run_pc, url_i, check_count, checked,
                   loop_errors, notifVars, checkVars, waitVars, otherVars>>

\* The 60 seconds are over (the sleep ended or wait_for timed out: pass)
CooldownDone ==
    /\ run_pc = "cooldown"
    /\ cooldown_left = 0
    /\ run_pc' = "while_top"
    /\ UNCHANGED <<event_urls, url_i, check_count, checked, loop_errors,
                   cooldown_left, notifVars, checkVars, waitVars, otherVars>>

----------------------------------------------------------------------------
(* Cancellation of the task that runs TicketMonitor.run: CancelledError is   *)
(* raised at the await the task is suspended in. It is not an Exception, so  *)
(* the except Exception clauses let it pass. One cancellation per run.       *)

\* ... while check_event is in BrowserManager.setup (stage as in SetupRaises):
\* __aexit__ does not run, check_event lets the error pass, run breaks
CancelDuringSetup(stage) ==
    /\ cancelled = "none"
    /\ run_pc = "checking"
    /\ ce_pc = "entering"
    /\ cancelled' = "in_check"
    /\ acquired' = HeldWhenSetupRaises(stage)
    /\ setup_state' = "raised"
    /\ ce_pc' = "returned"
    /\ ce_result' = "cancelled"
    /\ run_pc' = "stopped"
    /\ UNCHANGED <<ce_url, event, ft_outcome, all_tickets, resale_tickets,
                   notify_calls, ce_errors, cleanup_calls>>
    /\ UNCHANGED <<event_urls, url_i, check_count, checked, loop_errors,
                   cooldown_left, notifVars, waitVars, apartVars,
                   found_count, notified_count>>

\* ... while check_event awaits a call inside its session block: __aexit__
\* awaits cleanup with the CancelledError in flight. closing = 0: cleanup
\* completes, the CancelledError goes on through check_event and run breaks.
\* closing = i > 0: the i-th close raises; that exception replaces the
\* CancelledError, check_event catches and logs it and returns to the loop
CancelInSession(closing) ==
    /\ cancelled = "none"
    /\ run_pc = "checking"
    /\ ce_pc \in {"get_event_info", "find_tickets", "awaiting_send"}
    /\ cancelled' = "in_check"
    /\ cleanup_calls' = cleanup_calls + 1
    /\ ce_pc' = "returned"
    /\ IF closing = 0
       THEN /\ acquired' = {}
            /\ ce_result' = "cancelled"
            /\ ce_errors' = ce_errors
            /\ run_pc' = "stopped"
       ELSE /\ acquired' = HeldWhenCleanupRaises(closing)
            /\ ce_result' = EndAfterException
            /\ ce_errors' = ce_errors + 1
            /\ run_pc' = run_pc
    /\ UNCHANGED <<ce_url, event, ft_outcome, all_tickets, resale_tickets,
                   notify_calls, setup_state>>
    /\ UNCHANGED <<event_urls, url_i, check_count, checked, loop_errors,
                   cooldown_left, notifVars, waitVars, apartVars,
                   found_count, notified_count>>

\* ... while cleanup awaits its i-th close on the way out of the session
\* block: the CancelledError leaves cleanup, check_event and the for loop
CancelDuringCleanup(i) ==
    /\ cancelled = "none"
    /\ run_pc = "checking"
    /\ ce_pc = "exiting"
    /\ cancelled' = "in_check"
    /\ cleanup_calls' = cleanup_calls + 1
    /\ acquired' = HeldWhenCleanupRaises(i)
    /\ ce_pc' = "returned"
    /\ ce_result' = "cancelled"
    /\ run_pc' = "stopped"
    /\ UNCHANGED <<ce_url, event, ft_outcome, all_tickets, resale_tickets,
                   notify_calls, ce_errors, setup_state>>
    /\ UNCHANGED <<event_urls, url_i, check_count, checked, loop_errors,
                   cooldown_left, notifVars, waitVars, apartVars,
                   found_count, notified_count>>

\* ... while _wait_until_next_check sleeps: it logs and re-raises, and run
\* takes `except asyncio.CancelledError: break`
CancelDuringWait ==
    /\ cancelled = "none"
    /\ run_pc = "waiting"
    /\ w_pc \in {"chunk_sleep", "remainder_sleep"}
    /\ cancelled' = "in_wait"
    /\ w_pc' = "cancelled"
    /\ run_pc' = "stopped"
    /\ UNCHANGED <<check_interval, shutdown, wait_seconds, chunks, remainder,
                   chunk_i, slept>>
    /\ UNCHANGED <<event_urls, url_i, check_count, checked, loop_errors,
                   cooldown_left, notifVars, checkVars, apartVars,
                   found_count, notified_count>>

\* ... while run is in wait_for(shield(sleep(60)), timeout=60):
\* except (asyncio.CancelledError, asyncio.TimeoutError): pass
CancelDuringCooldown ==
    /\ cancelled = "none"
    /\ run_pc = "cooldown"
    /\ cancelled' = "in_cooldown"
    /\ cooldown_left' = 0
    /\ run_pc' = "while_top"
    /\ UNCHANGED <<event_urls, url_i, check_count, checked, loop_errors,
                   notifVars, checkVars, waitVars, apartVars,
                   found_count, notified_count>>

----------------------------------------------------------------------------
(* TicketScraper.find_tickets step by step: the awaits of its own body, with *)
(* the asyncio.sleep calls it starts (those made inside _click_find_tickets  *)
(* and the other helpers belong to the helper's step).                       *)

InitialWaits == 10..15    \* initial_wait = random.randint(10, 15)
CookiePause == 2          \* await asyncio.sleep(2), before and after consent
StepperPauses == {1, 2}   \* random.uniform(1.0, 2.0), its two ends
SettleWaits == 10..15     \* wait_time = random.randint(10, 15)

\* What a step of find_tickets leaves alone
scanFrame == <<ce_pc, ce_url, acquired, event, resale_tickets, notify_calls,
               ce_errors, ce_result, setup_state, cleanup_calls, notifVars,
               waitVars, runVars, cfgVars, priceVars, listingVars, alertVars,
               clickVars, obsVars>>

\* What the steps before the reveal click leave alone
ftQuiet == <<ft_outcome, all_tickets, ft_shots, ft_items, ft_parsed>>

\* await scraper.find_tickets(event_url): clear_storage is awaited (it logs
\* its own failures)
FtCall ==
    /\ ft_pc \in {"not_called", "done", "raised"}
    /\ ft_pc' = "navigate"
    /\ ft_sleeps' = <<>>
    /\ ft_shots' = <<>>
    /\ ft_items' = <<>>
    /\ ft_parsed' = 0
    /\ ft_outcome' = "none"
    /\ all_tickets' = <<>>
    /\ UNCHANGED scanFrame

\* navigate: page.goto returned, asyncio.sleep(wait_after) starts
FtNavigated(initial_wait) ==
    /\ ft_pc = "navigate"
    /\ ft_sleeps' = Append(ft_sleeps, <<"wait_after", initial_wait>>)
    /\ ft_pc' = "extra_wait"
    /\ UNCHANGED <<ftQuiet, scanFrame>>

ScreenshotFailurePropagates == FALSE

\* try: take_screenshot(...) except Exception: logger.error(...)
ScreenshotFailureLogged == TRUE

\* except Exception as e: the error is logged, take_screenshot is attempted
\* (shot_ok: it succeeded), return []
TopLevelHandler(shot_ok) ==
    /\ ft_outcome' = "error"
    /\ ft_shots' = Append(ft_shots, <<"error_occurred.png", shot_ok>>)
    /\ all_tickets' = FindTicketsResult("error", <<>>)
    /\ ft_pc' = IF shot_ok \/ ScreenshotFailureLogged THEN "done" ELSE "raised"
    /\ UNCHANGED <<ft_sleeps, ft_items, ft_parsed, scanFrame>>

\* navigate: page.goto raised
FtNavigateRaises(shot_ok) ==
    /\ ft_pc = "navigate"
    /\ TopLevelHandler(shot_ok)

\* An exception leaves another step in progress and reaches the try statement
\* of find_tickets (the helpers catch the exceptions of their own page
\* queries; this is any exception they let out)
FtStepRaises(shot_ok) ==
    /\ ft_pc \in {"cookie_consent", "quantity_stepper", "click_find_tickets",
                  "settle_wait"}
    /\ TopLevelHandler(shot_ok)

\* The extra wait is over: await asyncio.sleep(2) starts
FtExtraWaitDone ==
    /\ ft_pc = "extra_wait"
    /\ ft_sleeps' = Append(ft_sleeps, <<"cookie_pause", CookiePause>>)
    /\ ft_pc' = "cookie_pause"
    /\ UNCHANGED <<ftQuiet, scanFrame>>

\* That pause is over: handle_cookie_consent is awaited
FtCookiePauseDone ==
    /\ ft_pc = "cookie_pause"
    /\ ft_pc' = "cookie_consent"
    /\ UNCHANGED <<ft_sleeps, ftQuiet, scanFrame>>

\* handle_cookie_consent returned: await asyncio.sleep(2) starts
FtCookieConsentDone ==
    /\ ft_pc = "cookie_consent"
    /\ ft_sleeps' = Append(ft_sleeps, <<"post_cookie_pause", CookiePause>>)
    /\ ft_pc' = "post_cookie_pause"
    /\ UNCHANGED <<ftQuiet, scanFrame>>

\* That pause is over: _click_quantity_stepper is awaited
FtPostCookiePauseDone ==
    /\ ft_pc = "post_cookie_pause"
    /\ ft_pc' = "quantity_stepper"
    /\ UNCHANGED <<ft_sleeps, ftQuiet, scanFrame>>

\* _click_quantity_stepper returned: a pause starts if it clicked
FtQuantityStepperDone(clicked, pause) ==
    /\ ft_pc = "quantity_stepper"
    /\ IF clicked
       THEN /\ ft_sleeps' = Append(ft_sleeps, <<"stepper_pause", pause>>)
            /\ ft_pc' = "stepper_pause"
       ELSE /\ ft_sleeps' = ft_sleeps
            /\ ft_pc' = "click_find_tickets"
    /\ UNCHANGED <<ftQuiet, scanFrame>>

\* That pause is over: _click_find_tickets is awaited
FtStepperPauseDone ==
    /\ ft_pc = "stepper_pause"
    /\ ft_pc' = "click_find_tickets"
    /\ UNCHANGED <<ft_sleeps, ftQuiet, scanFrame>>

ContinueWithoutClick(find_tickets_clicked) == TRUE

\* if not find_tickets_clicked: ... return tickets; else the sequence goes on
ContinueAfterReveal(find_tickets_clicked) == find_tickets_clicked

\* _click_find_tickets returned: without a click a screenshot is attempted
\* (shot_ok: it succeeded; its failure is logged) and the still empty
\* tickets list is returned, after a click the settle wait starts
FtClickFindTicketsDone(clicked, wait_time, shot_ok) ==
    /\ ft_pc = "click_find_tickets"
    /\ clicked => shot_ok
    /\ ft_shots' = IF clicked THEN ft_shots
                   ELSE Append(ft_shots, <<"ticket_button_not_found.png", shot_ok>>)
    /\ IF ContinueAfterReveal(clicked)
       THEN /\ ft_sleeps' = Append(ft_sleeps, <<"settle_wait", wait_time>>)
            /\ ft_pc' = "settle_wait"
            /\ UNCHANGED <<ft_outcome, all_tickets>>
       ELSE /\ ft_outcome' = "button_not_found"
            /\ all_tickets' = FindTicketsResult("button_not_found", <<>>)
            /\ ft_pc' = "done"
            /\ ft_sleeps' = ft_sleeps
    /\ UNCHANGED <<ft_items, ft_parsed, scanFrame>>

DetailedParseWhenEmpty(simple_tickets, items) ==
    IF simple_tickets = <<>> THEN Len(items) ELSE 0

\* The _parse_ticket_element calls made after the simple scan: both branches
\* on simple_tickets return, the statements after them are never reached
DetailedParseCalls(simple_tickets, items) == 0

\* The settle wait is over: the simple scan runs and its result is returned
FtSettleWaitDone(items) ==
    /\ ft_pc = "settle_wait"
    /\ ft_outcome' = "scanned"
    /\ ft_items' = items
    /\ all_tickets' = FindTicketsResult("scanned", items)
    /\ ft_parsed' = DetailedParseCalls(FindTicketsResult("scanned", items), items)
    /\ ft_pc' = "done"
    /\ UNCHANGED <<ft_sleeps, ft_shots, scanFrame>>

----------------------------------------------------------------------------
(* TicketScraper._simple_resale_check on the elements of a listing page: a  *)
(* li element is the texts of its span descendants, in document order, and  *)
(* what the search for its "Section" entry meets.                           *)

NumSelectors == 17 \* len(selectors)

\* One pass of the loop body for a selector: is_visible gave False or
\* raised, scroll_into_view_if_needed raised, click raised, or click returned
ProbeOutcomes ==
    {"not_visible", "is_visible_raised", "scroll_raised", "click_raised",
     "clicked"}

NextSelectorGivesUp(i) == NumSelectors + 1

\* continue: the for loop takes the next selector
NextSelector(i) == i + 1

\* find_tickets awaits _click_find_tickets; the page is open (find_tickets
\* returns before it without one), so the guard at the top passes
CfCall ==
    /\ cf_pc \in {"not_called", "done"}
    /\ cf_pc' = "probing"
    /\ cf_i' = 1
    /\ cf_tried' = <<>>
    /\ cf_click_calls' = 0
    /\ cf_clicks' = 0
    /\ cf_clicked_at' = 0
    /\ cf_result' = "none"
    /\ UNCHANGED <<notifVars, checkVars, waitVars, runVars, scanVars, cfgVars,
                   priceVars, listingVars, alertVars, obsVars>>

\* The loop body for selectors[cf_i], up to the click or to the miss
CfProbe(outcome) ==
    /\ cf_pc = "probing"
    /\ cf_i <= NumSelectors
    /\ cf_tried' = Append(cf_tried, cf_i)
    /\ cf_click_calls' =
           cf_click_calls + (IF outcome \in {"click_raised", "clicked"} THEN 1 ELSE 0)
    /\ IF outcome = "clicked"
       THEN /\ cf_clicks' = cf_clicks + 1
            /\ cf_clicked_at' = cf_i
            /\ cf_pc' = "post_click_wait"
            /\ cf_i' = cf_i
       ELSE /\ cf_i' = NextSelector(cf_i)
            /\ UNCHANGED <<cf_clicks, cf_clicked_at, cf_pc>>
    /\ UNCHANGED cf_result
    /\ UNCHANGED <<notifVars, checkVars, waitVars, runVars, scanVars, cfgVars,
                   priceVars, listingVars, alertVars, obsVars>>

\* await asyncio.sleep(wait_time) after the click is over: return True
CfPostClickWaitDone ==
    /\ cf_pc = "post_click_wait"
    /\ cf_pc' = "done"
    /\ cf_result' = "true"
    /\ UNCHANGED <<cf_i, cf_tried, cf_click_calls, cf_clicks, cf_clicked_at>>
    /\ UNCHANGED <<notifVars, checkVars, waitVars, runVars, scanVars, cfgVars,
                   priceVars, listingVars, alertVars, obsVars>>

\* The for loop is exhausted: logger.warning(...); return False
CfLoopExhausted ==
    /\ cf_pc = "probing"
    /\ cf_i > NumSelectors
    /\ cf_pc' = "done"
    /\ cf_result' = "false"
    /\ UNCHANGED <<cf_i, cf_tried, cf_click_calls, cf_clicks, cf_clicked_at>>
    /\ UNCHANGED <<notifVars, checkVars, waitVars, runVars, scanVars, cfgVars,
                   priceVars, listingVars, alertVars, obsVars>>

----------------------------------------------------------------------------
(* TicketScraper._simple_resale_check *)

MarkerText == "Verified Resale Ticket"

\* text_content() of a span ("none": it is None)
SpanTexts == {MarkerText, " Verified Resale Ticket ", "Resale Ticket", "none"}

\* (await span.text_content() or '').strip()
StripText(t) ==
    CASE t = "none" -> ""
      [] t = " Verified Resale Ticket " -> MarkerText
      [] OTHER -> t

\* The span descendants of a li element
SpanLists ==
    {<<>>, <<"none">>, <<"Resale Ticket">>, <<MarkerText>>,
     <<" Verified Resale Ticket ">>, <<MarkerText, MarkerText>>,
     <<"Resale Ticket", MarkerText>>}

\* The dt / dd search of a li element: there is no dt reading "Section", the
\* dd after it reads "A", the dd after it is empty, or a query raises
SectionSearches == {"no_dt", "A", "empty", "raises"}

LiElements == [spans : SpanLists, section : SectionSearches]

HasAnySpan(li) == li.spans # <<>>

\* for span in spans: ... if text == "Verified Resale Ticket"
HasMarkerSpan(li) ==
    \E j \in 1..Len(li.spans) : StripText(li.spans[j]) = MarkerText

\* section_text after the inner try: None unless a "Section" dt was found
\* and the text of its next sibling was read; except Exception: pass
SectionText(li) ==
    CASE li.section = "A" -> "A"
      [] li.section = "empty" -> ""
      [] OTHER -> "none"

\* What the scan uses of a li element; an empty section text is as good as
\* none (section_text or "N/A")
ItemOf(li) ==
    [verified |-> HasMarkerSpan(li),
     section |-> IF SectionText(li) \in {"none", ""} THEN "none"
                 ELSE SectionText(li)]

\* _simple_resale_check on the li elements of the page
ScanListing(lis) == SimpleResaleCheck([i \in 1..Len(lis) |-> ItemOf(lis[i])])

NotScanned == [scanned |-> FALSE, tickets |-> <<>>]

\* tickets = await self._simple_resale_check(page, event)
SimpleResaleCheckRuns ==
    /\ ~listing_result.scanned
    /\ listing_result' = [scanned |-> TRUE, tickets |-> ScanListing(li_elements)]
    /\ UNCHANGED <<li_elements, notifVars, checkVars, waitVars, runVars,
                   scanVars, cfgVars, priceVars, alertVars, clickVars, obsVars>>

----------------------------------------------------------------------------
(* cli.async_main: the configuration from the command line, the environment *)
(* and the defaults. A field's value is a string; "absent" is a flag that   *)
(* was not given or an environment variable that is not set.                *)

Absent == "absent"

ConfigFields ==
    {"event_urls", "topic", "headless", "check_interval", "browser_timeout",
     "max_retries", "retry_delay", "log_level"}

\* --event-url, --ntfy-topic, --headless / --no-headless, --min-interval with
\* --max-interval, --browser-timeout, --max-retries, --retry-delay, --log-level
CliArgs ==
    [event_urls : {Absent, "cli_url"}, topic : {Absent, "cli_topic"},
     headless : {Absent, "true", "false"}, check_interval : {Absent, "1-2"},
     browser_timeout : {Absent, "60"}, max_retries : {Absent, "0", "5"},
     retry_delay : {Absent, "0", "9"}, log_level : {Absent, "DEBUG"}]

\* TICKETMASTER_URL, NTFY_TOPIC, HEADLESS, CHECK_INTERVAL_MIN, BROWSER_TIMEOUT,
\* MAX_RETRIES, LOG_LEVEL; no variable is read for the retry delay
Environs ==
    [event_urls : {Absent, "env_url"}, topic : {Absent, "env_topic"},
     headless : {Absent, "true"}, check_interval : {Absent, "3-4"},
     browser_timeout : {Absent, "120"}, max_retries : {Absent, "7"},
     retry_delay : {Absent}, log_level : {Absent, "WARNING"}]

\* The value argparse gives an argument whose flag is absent
ParserDefaults ==
    [event_urls |-> "None", topic |-> "None", headless |-> "false",
     check_interval |-> "8-12", browser_timeout |-> "360", max_retries |-> "3",
     retry_delay |-> "5", log_level |-> "INFO"]

\* parse_args: the Namespace
ParseArgs(cli) ==
    [f \in ConfigFields |-> IF cli[f] = Absent THEN ParserDefaults[f] ELSE cli[f]]

\* create_default_config, with NotificationConfig's retry defaults
DefaultConfig ==
    [event_urls |-> "[]", topic |-> "ticketmaster_resale_notify",
     headless |-> "false", check_interval |-> "8-12", browser_timeout |-> "360",
     max_retries |-> "3", retry_attempts |-> "3", retry_delay |-> "5",
     log_level |-> "INFO"]

NoConfig ==
    [event_urls |-> "none", topic |-> "none", headless |-> "none",
     check_interval |-> "none", browser_timeout |-> "none",
     max_retries |-> "none", retry_attempts |-> "none", retry_delay |-> "none",
     log_level |-> "none"]

\* load_config: each variable that is set replaces the default
LoadConfig(env) ==
    [DefaultConfig EXCEPT
        !.event_urls = IF env.event_urls # Absent THEN env.event_urls ELSE @,
        !.topic = IF env.topic # Absent THEN env.topic ELSE @,
        !.headless = IF env.headless # Absent THEN env.headless ELSE @,
        !.check_interval =
            IF env.check_interval # Absent THEN env.check_interval ELSE @,
        !.browser_timeout =
            IF env.browser_timeout # Absent THEN env.browser_timeout ELSE @,
        !.max_retries = IF env.max_retries # Absent THEN env.max_retries ELSE @,
        !.log_level = IF env.log_level # Absent THEN env.log_level ELSE @]

\* if args.x: the truth value of an argument
Truthy(v) == v \notin {"None", "0"}

\* async_main: load_config(), then the arguments that are true replace its
\* values (headless: when one of its flags is in sys.argv; the check
\* interval of the arguments is not copied)
AsyncMain(cli, env) ==
    LET args == ParseArgs(cli)
    IN  [LoadConfig(env) EXCEPT
            !.event_urls = IF Truthy(args.event_urls) THEN args.event_urls ELSE @,
            !.topic = IF Truthy(args.topic) THEN args.topic ELSE @,
            !.headless = IF cli.headless # Absent THEN args.headless ELSE @,
            !.browser_timeout =
                IF Truthy(args.browser_timeout) THEN args.browser_timeout ELSE @,
            !.max_retries =
                IF Truthy(args.max_retries) THEN args.max_retries ELSE @,
            !.retry_attempts =
                IF Truthy(args.max_retries) THEN args.max_retries ELSE @,
            !.retry_delay =
                IF Truthy(args.retry_delay) THEN args.retry_delay ELSE @,
            !.log_level = IF Truthy(args.log_level) THEN args.log_level ELSE @]

\* async_main builds the configuration it runs the monitor with
BuildConfig ==
    /\ config = NoConfig
    /\ config' = AsyncMain(cli_args, environ)
    /\ UNCHANGED <<cli_args, environ, notifVars, checkVars, waitVars, runVars,
                   scanVars, priceVars, listingVars, alertVars, clickVars, obsVars>>

----------------------------------------------------------------------------
(* TicketScraper._parse_ticket_element: the price text made a number.       *)
(* A number is its digits read as an integer (units) and the count of       *)
(* digits after the decimal point (scale): 1234.56 is units 123456, scale 2 *)

MaxPriceLen == 5     \* longest price text explored

DigitChars == <<"0", "1", "2", "3", "4", "5", "6", "7", "8", "9">>

IsDigit(c) == \E i \in 1..Len(DigitChars) : DigitChars[i] = c

DigitValue(c) == (CHOOSE i \in 1..Len(DigitChars) : DigitChars[i] = c) - 1

Contains(str, c) == \E i \in 1..Len(str) : str[i] = c

\* str.find(c): the first index (from 0), -1 when c is not in str
Find(str, c) ==
    IF Contains(str, c)
    THEN (CHOOSE i \in 1..Len(str) :
              str[i] = c /\ \A j \in 1..(i - 1) : str[j] # c) - 1
    ELSE -1

\* str.replace(c, d) for single characters, str.replace(c, '')
Replace(str, c, d) == [i \in 1..Len(str) |-> IF str[i] = c THEN d ELSE str[i]]

Remove(str, c) == LET Other(x) == x # c IN SelectSeq(str, Other)

\* ''.join(c for c in price_text if c.isdigit() or c in '.,')
StripPrice(text) ==
    LET Kept(c) == IsDigit(c) \/ c \in {".", ","} IN SelectSeq(text, Kept)

\* The if / else on the separators of price_str
NormalizePrice(text) ==
    LET price_str == StripPrice(text)
    IN  IF Contains(price_str, ",") /\ Contains(price_str, ".")
        THEN IF Find(price_str, ",") < Find(price_str, ".")
             THEN Replace(Remove(price_str, "."), ",", ".")
             ELSE Remove(price_str, ",")
        ELSE Replace(price_str, ",", ".")

RECURSIVE DigitsValue(_)
DigitsValue(digits) ==
    IF digits = <<>> THEN 0
    ELSE 10 * DigitsValue(SubSeq(digits, 1, Len(digits) - 1))
         + DigitValue(digits[Len(digits)])

\* price = None, kept when float() raises ValueError
NoPrice == [valid |-> FALSE, units |-> 0, scale |-> 0]

NotParsed == [valid |-> FALSE, units |-> 0 - 1, scale |-> 0]

\* float(price_str) for a string of digits and points: one point at most and
\* a digit at least, else ValueError
ParseFloat(str) ==
    LET points == {i \in 1..Len(str) : str[i] = "."}
        digits == Remove(str, ".")
    IN  IF Cardinality(points) <= 1 /\ digits # <<>>
        THEN [valid |-> TRUE, units |-> DigitsValue(digits),
              scale |-> IF points = {} THEN 0
                        ELSE Len(str) - (CHOOSE i \in points : TRUE)]
        ELSE NoPrice

\* The price of a ticket container whose price element reads text
PriceOf(text) == ParseFloat(NormalizePrice(text))

\* _parse_ticket_element parses the price of the element
ParsePrice ==
    /\ price = NotParsed
    /\ price' = PriceOf(price_text)
    /\ UNCHANGED <<price_text, pe_element, pe_result, notifVars, checkVars,
                   waitVars, runVars, scanVars, cfgVars, listingVars, alertVars,
                   clickVars, obsVars>>

\* A ticket container: the text of the first element matching a section
\* selector and a row selector ("none": no match), that of the first one
\* matching a price selector (<<"none">>: no match), whether one of its
\* spans reads "Verified Resale Ticket", and whether a badge selector matches
TicketElements ==
    [section : {"none", "A"}, row : {"none", "10"},
     price_text : {<<"none">>, <<>>, <<"E", "9", "9", ".", "9", "9">>,
                   <<"1", ".", "2", ",", "5">>},
     marker_span : BOOLEAN, badge : BOOLEAN]

\* return None
NoTicket ==
    [parsed |-> TRUE, made |-> FALSE, section |-> "none", row |-> "none",
     price |-> NoPrice, is_verified_resale |-> FALSE]

NotParsedYet == [NoTicket EXCEPT !.parsed = FALSE]

\* any(await asyncio.gather(*[element.query_selector(sel) is not None
\*                            for sel in selectors['verified']])):
\* each argument of gather is the bool True (a coroutine object is not
\* None), and gather raises TypeError for an argument that is no awaitable
VerifiedFallback(el) == "raised"

\* _parse_ticket_element(element, event): None without a section or a price
\* element, and None when the except clause around the whole body catches
\* (the fallback is reached when no span has the marker text)
ParseTicketElement(el) ==
    IF el.section = "none" \/ el.price_text = <<"none">> THEN NoTicket
    ELSE IF ~el.marker_span /\ VerifiedFallback(el) = "raised" THEN NoTicket
    ELSE [parsed |-> TRUE, made |-> TRUE, section |-> el.section,
          row |-> el.row, price |-> PriceOf(el.price_text),
          is_verified_resale |-> TRUE]

\* ticket = await self._parse_ticket_element(element, event)
ParseElement ==
    /\ ~pe_result.parsed
    /\ pe_result' = ParseTicketElement(pe_element)
    /\ UNCHANGED <<pe_element, price_text, price, notifVars, checkVars,
                   waitVars, runVars, scanVars, cfgVars, listingVars, alertVars,
                   clickVars, obsVars>>

----------------------------------------------------------------------------
(* TicketMonitor._handle_resale_tickets_found: the text of the alert. A     *)
(* price is a count of thousandths of a euro (149.99 is 149990); texts are  *)
(* sequences of characters, "E" standing for the euro sign.                 *)

\* Ticket.price: None, or a float (0.0 and values that are no round cents
\* included; none lies halfway between two cents)
AlertPrices ==
    {[known |-> FALSE, mills |-> 0]}
    \cup [known : {TRUE}, mills : {0, 99990, 149990, 149996, 1234560}]

AlertTickets == [section : {"A", "B"}, price : AlertPrices, row : {"none", "10"}]

\* Six tickets: one more than the alert lists
LongTicketList ==
    [i \in 1..6 |->
        [section |-> "A", price |-> [known |-> TRUE, mills |-> 99990],
         row |-> "none"]]

AlertEvents == [url : {"url1"}, name : {"none", "Test Event"}]

RECURSIVE NatDigits(_)
\* The decimal digits of a natural number
NatDigits(n) ==
    IF n < 10 THEN <<DigitChars[n + 1]>>
    ELSE Append(NatDigits(n \div 10), DigitChars[(n % 10) + 1])

RECURSIVE GroupThousands(_)
\* The "," option of the format: a comma before every group of three digits
GroupThousands(digits) ==
    IF Len(digits) <= 3 THEN digits
    ELSE GroupThousands(SubSeq(digits, 1, Len(digits) - 3))
         \o <<",">> \o SubSeq(digits, Len(digits) - 2, Len(digits))

CentsOfWholeEuros(mills) == ((mills + 500) \div 1000) * 100

\* The ".2f" of the format: the nearest count of cents
CentsOf(mills) == (mills + 5) \div 10

\* f"€{ticket.price:,.2f}" if ticket.price else "Price not available"
FormatPrice(ticket_price) ==
    IF ticket_price.known /\ ticket_price.mills # 0
    THEN LET cents == CentsOf(ticket_price.mills)
         IN  <<"E">> \o GroupThousands(NatDigits(cents \div 100)) \o <<".">>
             \o <<DigitChars[((cents % 100) \div 10) + 1],
                  DigitChars[(cents % 10) + 1]>>
    ELSE <<"Price not available">>

\* The line of ticket i: f"\n{i}. {ticket.section} - {price}", and
\* f" (Row {ticket.row})" when the ticket has a row
TicketLine(i, ticket) ==
    [index |-> i, section |-> ticket.section, price |-> FormatPrice(ticket.price),
     row |-> ticket.row]

\* "".join(message_parts): the head line with event.name or 'Event' and
\* len(tickets), a line for each of the first 5 tickets, "... and n more"
\* beyond 5, and the event URL
MessageParts(ev, tickets) ==
    [name |-> IF ev.name = "none" THEN "Event" ELSE ev.name,
     count |-> Len(tickets),
     lines |-> [i \in 1..(IF Len(tickets) < 5 THEN Len(tickets) ELSE 5) |->
                   TicketLine(i, tickets[i])],
     more |-> IF Len(tickets) > 5 THEN Len(tickets) - 5 ELSE 0,
     url |-> ev.url]

NoMessage == [name |-> "none", count |-> 0, lines |-> <<>>, more |-> 0, url |-> "none"]

\* await self._handle_resale_tickets_found(event, tickets): the message of
\* the send_notification call
ComposeAlert ==
    /\ alert_message = NoMessage
    /\ alert_message' = MessageParts(alert_call.event, alert_call.tickets)
    /\ UNCHANGED <<alert_call, notifVars, checkVars, waitVars, runVars,
                   scanVars, cfgVars, priceVars, listingVars, clickVars, obsVars>>

----------------------------------------------------------------------------
(* Initial states *)

\* NotificationService.__init__ / NotificationManager.__init__ with the
\* services list a caller may install
NotifyInit ==
    /\ retry_attempts \in RetryAttemptsDomain
    /\ retry_delay \in RetryDelayDomain
    /\ services \in SeqsUpTo(ServiceKinds, MaxServices)
    /\ mgr_pc = "idle"
    /\ mgr_result = "none"
    /\ mgr_errors = 0
    /\ mgr_warnings = 0
    /\ notification = NoNotification
    /\ svc = <<>>

\* NotificationManager._setup_services: one ntfy service or none
ConfiguredNotifyInit ==
    /\ retry_attempts \in RetryAttemptsDomain
    /\ retry_delay \in RetryDelayDomain
    /\ services \in {<<>>, <<"retrying">>}
    /\ mgr_pc = "idle"
    /\ mgr_result = "none"
    /\ mgr_errors = 0
    /\ mgr_warnings = 0
    /\ notification = NoNotification
    /\ svc = <<>>

\* create_default_config: NotificationConfig defaults with the ntfy service
DefaultNotifyInit ==
    /\ retry_attempts = DefaultRetryAttempts
    /\ retry_delay = DefaultRetryDelay
    /\ services = <<"retrying">>
    /\ mgr_pc = "idle"
    /\ mgr_result = "none"
    /\ mgr_errors = 0
    /\ mgr_warnings = 0
    /\ notification = NoNotification
    /\ svc = <<>>

\* No check_event in progress
CheckInit ==
    /\ ce_pc = "idle"
    /\ ce_url = "none"
    /\ acquired = {}
    /\ event = NoEvent
    /\ ft_outcome = "none"
    /\ all_tickets = <<>>
    /\ resale_tickets = <<>>
    /\ notify_calls = 0
    /\ ce_errors = 0
    /\ ce_result = "none"
    /\ setup_state = "none"
    /\ cleanup_calls = 0

\* --min-interval / --max-interval and CHECK_INTERVAL_MIN take any floats
IntervalTicks == (0 - NegIntervalTicks)..MaxIntervalTicks

\* TicketMonitor.__init__ with a check_interval of the configuration
WaitInit ==
    /\ check_interval \in IntervalTicks \X IntervalTicks
    /\ shutdown = FALSE
    /\ w_pc = "idle"
    /\ wait_seconds = 0
    /\ chunks = 0
    /\ remainder = 0
    /\ chunk_i = 0
    /\ slept = 0

\* create_default_config: check_interval = (8.0, 12.0) minutes
DefaultWaitInit ==
    /\ check_interval = <<160, 240>>
    /\ shutdown = FALSE
    /\ w_pc = "idle"
    /\ wait_seconds = 0
    /\ chunks = 0
    /\ remainder = 0
    /\ chunk_i = 0
    /\ slept = 0

\* A Ticket as a test or a scan makes it
Tickets ==
    [event : {"url1"}, section : {"A", "B"}, row : {"none"}, price : {"none"},
     quantity : {1}, is_verified_resale : BOOLEAN]

\* check_for_resale_tickets with find_tickets just returned (any list of
\* Tickets: test_check_for_resale_tickets replaces find_tickets)
FilterInit ==
    /\ ce_pc = "filtering"
    /\ ce_url = "url1"
    /\ acquired = Prefix(Len(Resources))
    /\ event = [url |-> "url1", name |-> "none"]
    /\ ft_outcome = "scanned"
    /\ all_tickets \in SeqsUpTo(Tickets, MaxTickets)
    /\ resale_tickets = <<>>
    /\ notify_calls = 0
    /\ ce_errors = 0
    /\ ce_result = "none"
    /\ setup_state = "ok"
    /\ cleanup_calls = 0

\* run has not been called
NoRunInit ==
    /\ event_urls = <<>>
    /\ run_pc = "not_called"
    /\ url_i = 1
    /\ check_count = 0
    /\ checked = <<>>
    /\ loop_errors = 0
    /\ cooldown_left = 0

\* TicketMonitor.__init__ and the call of run, with any list of event URLs
RunInit ==
    /\ event_urls \in SeqsUpTo(EventUrls, MaxUrls)
    /\ run_pc = "start"
    /\ url_i = 1
    /\ check_count = 0
    /\ checked = <<>>
    /\ loop_errors = 0
    /\ cooldown_left = 0

\* A configuration with --max-retries 1 and the ntfy service
SingleAttemptNotifyInit ==
    /\ retry_attempts = 1
    /\ retry_delay = DefaultRetryDelay
    /\ services = <<"retrying">>
    /\ mgr_pc = "idle"
    /\ mgr_result = "none"
    /\ mgr_errors = 0
    /\ mgr_warnings = 0
    /\ notification = NoNotification
    /\ svc = <<>>

\* A check_interval short enough for two chunks and a remainder
ShortWaitInit ==
    /\ check_interval = <<MaxIntervalTicks - 1, MaxIntervalTicks>>
    /\ shutdown = FALSE
    /\ w_pc = "idle"
    /\ wait_seconds = 0
    /\ chunks = 0
    /\ remainder = 0
    /\ chunk_i = 0
    /\ slept = 0

\* find_tickets has not been called
NoScanInit ==
    /\ ft_pc = "not_called"
    /\ ft_sleeps = <<>>
    /\ ft_shots = <<>>
    /\ ft_items = <<>>
    /\ ft_parsed = 0

\* The default configuration, no flag and no environment variable
NoConfigInit ==
    /\ cli_args = [f \in ConfigFields |-> Absent]
    /\ environ = [f \in ConfigFields |-> Absent]
    /\ config = AsyncMain(cli_args, environ)

\* async_main starts with any flags and any environment
ConfigInit ==
    /\ cli_args \in CliArgs
    /\ environ \in Environs
    /\ config = NoConfig

\* No price element is being parsed
NoPriceInit ==
    /\ price_text = <<>>
    /\ price = NoPrice
    /\ pe_element = [section |-> "none", row |-> "none", price_text |-> <<"none">>,
                     marker_span |-> FALSE, badge |-> FALSE]
    /\ pe_result = NoTicket

\* "E" stands for the currency sign
PriceChars == {"1", "2", ".", ",", "E"}

\* "1.234,56", "1,234.56" and "99.99" after a currency sign
ExampleTexts ==
    {<<"1", ".", "2", "3", "4", ",", "5", "6">>,
     <<"1", ",", "2", "3", "4", ".", "5", "6">>,
     <<"E", "9", "9", ".", "9", "9">>}

\* A price element with any short text, or one of the examples
PriceInit ==
    /\ price_text \in SeqsUpTo(PriceChars, MaxPriceLen) \cup ExampleTexts
    /\ price = NotParsed
    /\ pe_element = [section |-> "none", row |-> "none", price_text |-> <<"none">>,
                     marker_span |-> FALSE, badge |-> FALSE]
    /\ pe_result = NoTicket

\* _parse_ticket_element is called with any ticket container
ElementInit ==
    /\ price_text = <<>>
    /\ price = NoPrice
    /\ pe_element \in TicketElements
    /\ pe_result = NotParsedYet

\* No page is being scanned on its own
NoListingInit ==
    /\ li_elements = <<>>
    /\ listing_result = [scanned |-> TRUE, tickets |-> <<>>]

\* A listing page with any li elements, before the scan
ListingInit ==
    /\ li_elements \in SeqsUpTo(LiElements, MaxItems)
    /\ listing_result = NotScanned

\* No alert is being composed on its own
NoAlertInit ==
    /\ alert_call = [event |-> [url |-> "none", name |-> "none"], tickets |-> <<>>]
    /\ alert_message = MessageParts(alert_call.event, alert_call.tickets)

\* _handle_resale_tickets_found is called with an event and any tickets
AlertInit ==
    /\ alert_call \in [event : AlertEvents,
                       tickets : (SeqsUpTo(AlertTickets, MaxItems) \ {<<>>})
                                 \cup {LongTicketList}]
    /\ alert_message = NoMessage

\* _click_find_tickets has not been called
NoClickInit ==
    /\ cf_pc = "not_called"
    /\ cf_i = 1
    /\ cf_tried = <<>>
    /\ cf_click_calls = 0
    /\ cf_clicks = 0
    /\ cf_clicked_at = 0
    /\ cf_result = "none"

\* Nothing observed yet
NoObsInit ==
    /\ found_count = 0
    /\ notified_count = 0
    /\ cancelled = "none"

\* The components apart from the monitor loop are at rest
ApartInit ==
    /\ NoScanInit /\ NoConfigInit /\ NoPriceInit /\ NoListingInit /\ NoAlertInit
    /\ NoClickInit /\ NoObsInit

----------------------------------------------------------------------------
(* Specifications *)

\* The notification manager called directly, with any services list
InitNotify == NotifyInit /\ CheckInit /\ DefaultWaitInit /\ NoRunInit /\ ApartInit

NotifyNext ==
    \/ EnvSendNotification
    \/ \E s \in 1..MaxServices : SendStart(s)
    \/ \E s \in 1..MaxServices, v \in {"true", "false"} : ImplReturns(s, v)
    \/ \E s \in 1..MaxServices : ImplRaises(s)
    \/ \E s \in 1..MaxServices : SleepDone(s)
    \/ \E s \in 1..MaxServices, r \in {"true", "false", "raised"} : MockSend(s, r)
    \/ GatherReturns

SpecNotify == InitNotify /\ [][NotifyNext]_vars

\* The manager as _setup_services builds it, delivering through ntfy: each
\* POST is answered with a status, or fails before any answer
InitNtfy ==
    ConfiguredNotifyInit /\ CheckInit /\ DefaultWaitInit /\ NoRunInit /\ ApartInit

NtfyNext ==
    \/ EnvSendNotification
    \/ SendStart(1)
    \/ \E status \in HttpStatuses : NtfySendImpl(1, status)
    \/ ImplRaises(1)
    \/ SleepDone(1)
    \/ GatherReturns

SpecNtfy == InitNtfy /\ [][NtfyNext]_vars

\* check_event with the scraper and the notification delivery it calls, the
\* manager being set up from the configuration
InitCheck == ConfiguredNotifyInit /\ CheckInit /\ DefaultWaitInit /\ NoRunInit /\ ApartInit

CheckNext ==
    \/ \E url \in EventUrls : CheckEventCall(url)
    \/ SetupOk
    \/ \E stage \in SetupStages : SetupRaises(stage)
    \/ \E ok \in BOOLEAN, name \in EventNames : GetEventInfo(ok, name)
    \/ \E outcome \in FindTicketsOutcomes, items \in SeqsUpTo(ListItems, MaxItems) :
           FindTickets(outcome, items)
    \/ CheckForResaleTicketsReturns
    \/ HandleResaleTicketsFound
    \/ SendNotificationReturned
    \/ CleanupOk
    \/ \E i \in 1..Len(CleanupOrder) : CleanupRaises(i)
    \/ \E s \in 1..MaxServices : SendStart(s)
    \/ \E s \in 1..MaxServices, v \in {"true", "false"} : ImplReturns(s, v)
    \/ \E s \in 1..MaxServices : ImplRaises(s)
    \/ \E s \in 1..MaxServices : SleepDone(s)
    \/ GatherReturns

SpecCheck == InitCheck /\ [][CheckNext]_vars

\* check_for_resale_tickets applied to any find_tickets result
InitFilter == DefaultNotifyInit /\ FilterInit /\ DefaultWaitInit /\ NoRunInit /\ ApartInit

FilterNext == CheckForResaleTicketsReturns

SpecFilter == InitFilter /\ [][FilterNext]_vars

\* _wait_until_next_check with the shutdown signal
InitWait == DefaultNotifyInit /\ CheckInit /\ WaitInit /\ NoRunInit /\ ApartInit

WaitNext ==
    \/ \E m \in IntervalTicks : WaitCall(m)
    \/ WaitLoopTop
    \/ ChunkSleepDone
    \/ RemainderSleepDone
    \/ HandleShutdown

SpecWait == InitWait /\ [][WaitNext]_vars

\* run with the checks, the notification delivery and the waits it makes,
\* and the shutdown signal arriving at any moment
InitRun ==
    SingleAttemptNotifyInit /\ CheckInit /\ ShortWaitInit /\ RunInit /\ ApartInit

\* The listing pages met during a run: no list item, or one of any kind
RunPages == {<<>>} \cup {<<item>> : item \in ListItems}

\* The steps of the program (everything but the signal) other than the
\* return of check_event to run
RunSteps ==
    \/ RunStart
    \/ RunStop
    \/ RunNewCycle
    \/ RunCheckEvent
    \/ RunLeaveFor
    \/ \E m \in IntervalTicks : RunWait(m)
    \/ RunWaitRaises
    \/ RunSkipWait
    \/ RunWaitDone
    \/ CooldownTick
    \/ CooldownDone
    \/ SetupOk
    \/ \E stage \in SetupStages : SetupRaises(stage)
    \/ \E ok \in BOOLEAN, name \in EventNames : GetEventInfo(ok, name)
    \/ \E outcome \in FindTicketsOutcomes, items \in RunPages :
           FindTickets(outcome, items)
    \/ CheckForResaleTicketsReturns
    \/ HandleResaleTicketsFound
    \/ SendNotificationReturned
    \/ CleanupOk
    \/ \E i \in 1..Len(CleanupOrder) : CleanupRaises(i)
    \/ \E s \in 1..MaxServices : SendStart(s)
    \/ \E s \in 1..MaxServices, v \in {"true", "false"} : ImplReturns(s, v)
    \/ \E s \in 1..MaxServices : ImplRaises(s)
    \/ GatherReturns
    \/ WaitLoopTop
    \/ ChunkSleepDone
    \/ RemainderSleepDone

RunProgress == RunSteps \/ RunCheckEventDone

RunNext == RunProgress \/ HandleShutdown

SpecRun == InitRun /\ [][RunNext]_vars

\* Every check and every sleep in progress finishes: the program keeps
\* taking steps while it has one to take
SpecRunFair == SpecRun /\ WF_vars(RunProgress)

\* The monitor loop with an observer counting, over the whole run, the checks
\* that found resale tickets and the notifications dispatched
InitRepeat ==
    SingleAttemptNotifyInit /\ CheckInit /\ ShortWaitInit /\ RunInit /\ ApartInit

RepeatNext == RunSteps \/ RunCheckEventObserved \/ HandleShutdown

SpecRepeat == InitRepeat /\ [][RepeatNext]_vars

\* The monitor loop whose task may be cancelled once, at any await
InitCancel ==
    SingleAttemptNotifyInit /\ CheckInit /\ ShortWaitInit /\ RunInit /\ ApartInit

CancelNext ==
    \/ RunNext
    \/ \E stage \in SetupStages : CancelDuringSetup(stage)
    \/ \E closing \in 0..Len(CleanupOrder) : CancelInSession(closing)
    \/ \E i \in 1..Len(CleanupOrder) : CancelDuringCleanup(i)
    \/ CancelDuringWait
    \/ CancelDuringCooldown

SpecCancel == InitCancel /\ [][CancelNext]_vars

\* find_tickets on an open session, with the shutdown signal
InitScan ==
    DefaultNotifyInit /\ FilterInit /\ DefaultWaitInit /\ NoRunInit /\ ApartInit

ScanNext ==
    \/ FtCall
    \/ \E w \in InitialWaits : FtNavigated(w)
    \/ \E shot_ok \in BOOLEAN : FtNavigateRaises(shot_ok)
    \/ \E shot_ok \in BOOLEAN : FtStepRaises(shot_ok)
    \/ FtExtraWaitDone
    \/ FtCookiePauseDone
    \/ FtCookieConsentDone
    \/ FtPostCookiePauseDone
    \/ \E clicked \in BOOLEAN, pause \in StepperPauses :
           FtQuantityStepperDone(clicked, pause)
    \/ FtStepperPauseDone
    \/ \E clicked \in BOOLEAN, w \in SettleWaits, shot_ok \in BOOLEAN :
           FtClickFindTicketsDone(clicked, w, shot_ok)
    \/ \E items \in SeqsUpTo(ListItems, MaxItems) : FtSettleWaitDone(items)
    \/ HandleShutdown

SpecScan == InitScan /\ [][ScanNext]_vars

\* async_main building the configuration from flags and environment
InitConfig ==
    /\ DefaultNotifyInit /\ CheckInit /\ DefaultWaitInit /\ NoRunInit
    /\ NoScanInit /\ ConfigInit /\ NoPriceInit /\ NoListingInit /\ NoAlertInit
    /\ NoClickInit /\ NoObsInit

ConfigNext == BuildConfig

SpecConfig == InitConfig /\ [][ConfigNext]_vars

\* The price parse of _parse_ticket_element applied to a price text
InitPrice ==
    /\ DefaultNotifyInit /\ CheckInit /\ DefaultWaitInit /\ NoRunInit
    /\ NoScanInit /\ NoConfigInit /\ PriceInit /\ NoListingInit /\ NoAlertInit
    /\ NoClickInit /\ NoObsInit

PriceNext == ParsePrice

SpecPrice == InitPrice /\ [][PriceNext]_vars

\* _simple_resale_check applied to a listing page
InitListing ==
    /\ DefaultNotifyInit /\ CheckInit /\ DefaultWaitInit /\ NoRunInit
    /\ NoScanInit /\ NoConfigInit /\ NoPriceInit /\ ListingInit /\ NoAlertInit
    /\ NoClickInit /\ NoObsInit

ListingNext == SimpleResaleCheckRuns

SpecListing == InitListing /\ [][ListingNext]_vars

\* _handle_resale_tickets_found composing the alert for any tickets
InitAlert ==
    /\ DefaultNotifyInit /\ CheckInit /\ DefaultWaitInit /\ NoRunInit
    /\ NoScanInit /\ NoConfigInit /\ NoPriceInit /\ NoListingInit /\ AlertInit
    /\ NoClickInit /\ NoObsInit

AlertNext == ComposeAlert

SpecAlert == InitAlert /\ [][AlertNext]_vars

\* _parse_ticket_element applied to a ticket container
InitElement ==
    /\ DefaultNotifyInit /\ CheckInit /\ DefaultWaitInit /\ NoRunInit
    /\ NoScanInit /\ NoConfigInit /\ ElementInit /\ NoListingInit /\ NoAlertInit
    /\ NoClickInit /\ NoObsInit

ElementNext == ParseElement

SpecElement == InitElement /\ [][ElementNext]_vars

\* _click_find_tickets on an open page, each selector probed with any outcome
InitClick ==
    DefaultNotifyInit /\ CheckInit /\ DefaultWaitInit /\ NoRunInit /\ ApartInit

ClickNext ==
    \/ CfCall
    \/ \E outcome \in ProbeOutcomes : CfProbe(outcome)
    \/ CfPostClickWaitDone
    \/ CfLoopExhausted

SpecClick == InitClick /\ [][ClickNext]_vars

----------------------------------------------------------------------------
(* Properties of NotificationService.send *)

RetryingTasks == {s \in DOMAIN svc : services[s] = "retrying"}

AllRaise(t) == \A i \in 1..Len(t.outcomes) : t.outcomes[i] = "raise"

\* C1 (as amended): with retry_attempts = N >= 1, _send_impl is never invoked
\* more than N times and never again after an attempt that did not raise; if
\* the first attempt that does not raise is the k-th, _send_impl was invoked
\* exactly k times and send returns at once what that attempt returned
\* (success when it returned true, failure when it returned false); if all N
\* attempts raise, _send_impl was invoked exactly N times and send returns
\* failure.
C1_SendAttempts ==
    retry_attempts >= 1 =>
        \A s \in RetryingTasks :
            LET t == svc[s]
                k == Len(t.outcomes)
            IN  /\ ImplCalls(t) <= retry_attempts
                /\ \A i \in 1..(k - 1) : t.outcomes[i] = "raise"
                /\ (k >= 1 /\ t.outcomes[k] # "raise") =>
                       /\ t.pc = "done"
                       /\ ImplCalls(t) = k
                       /\ t.result = t.outcomes[k]
                /\ (t.pc = "done" /\ AllRaise(t)) =>
                       /\ ImplCalls(t) = retry_attempts
                       /\ t.result = "false"

\* C1 as stated: the first attempt that does not raise makes send return
\* success, whatever that attempt returned.
C1_SendAttemptsAsStated ==
    retry_attempts >= 1 =>
        \A s \in RetryingTasks :
            LET t == svc[s]
                k == Len(t.outcomes)
            IN  /\ ImplCalls(t) <= retry_attempts
                /\ (k >= 1 /\ t.outcomes[k] # "raise") =>
                       /\ t.pc = "done"
                       /\ ImplCalls(t) = k
                       /\ t.result = "true"
                /\ (t.pc = "done" /\ AllRaise(t)) =>
                       /\ ImplCalls(t) = retry_attempts
                       /\ t.result = "false"

\* The scenario of test_send_with_retry: two failures, then success
C1_Witness ==
    \E s \in RetryingTasks :
        /\ retry_attempts = 3
        /\ svc[s].pc = "done"
        /\ svc[s].outcomes = <<"raise", "raise", "true">>
        /\ svc[s].result = "true"

\* C2: the backoff is linear. The j-th sleep of a send lasts retry_delay * j
\* seconds, and there is one sleep for each failed attempt j < retry_attempts
\* and no other: none after the final failed attempt, none after an attempt
\* that returned.
C2_LinearBackoff ==
    \A s \in RetryingTasks :
        LET t == svc[s]
            k == Len(t.outcomes)
            retried == {j \in 1..k : t.outcomes[j] = "raise" /\ j < retry_attempts}
        IN  /\ \A j \in 1..Len(t.sleeps) : t.sleeps[j] = retry_delay * j
            /\ Len(t.sleeps) = Cardinality(retried)
            /\ t.pc = "sleeping" => (k >= 1 /\ t.outcomes[k] = "raise" /\ Len(t.sleeps) = k)
            /\ t.pc = "awaiting_impl" => Len(t.sleeps) = k

\* retry_attempts = 3, retry_delay = 5: two failures, sleeps of 5 s and 10 s
C2_Witness ==
    \E s \in RetryingTasks :
        /\ retry_attempts = 3
        /\ retry_delay = 5
        /\ svc[s].pc = "done"
        /\ svc[s].result = "true"
        /\ svc[s].sleeps = <<5, 10>>

\* C3: send never lets an exception raised by _send_impl escape: its result
\* is a boolean, also when the final attempt raised.
C3_SendNeverRaises ==
    \A s \in RetryingTasks :
        /\ svc[s].result # "raised"
        /\ svc[s].pc = "done" => svc[s].result \in {"true", "false"}

\* Every attempt raised, the final one included, and send returned False
C3_Witness ==
    \E s \in RetryingTasks :
        /\ retry_attempts >= 2
        /\ svc[s].pc = "done"
        /\ Len(svc[s].outcomes) = retry_attempts
        /\ AllRaise(svc[s])
        /\ svc[s].result = "false"

\* C4: every send that returned failure has emitted an error log line before
\* returning, for every retry_attempts and every outcome sequence.
C4_FailureIsLogged ==
    \A s \in RetryingTasks :
        (svc[s].pc = "done" /\ svc[s].result = "false") => svc[s].errors >= 1

----------------------------------------------------------------------------
(* Properties of NotificationManager.send_notification *)

Configured == 1..Len(services)

\* C5: send_notification returns success if and only if the send of at least
\* one configured service returned success; with no configured service it
\* returns failure at once and no send is started.
C5_AtLeastOneSuccess ==
    mgr_pc = "returned" =>
        /\ mgr_result \in {"true", "false"}
        /\ mgr_result = "true" <=>
               \E s \in Configured : s \in DOMAIN svc /\ svc[s].result = "true"
        /\ services = <<>> => (mgr_result = "false" /\ svc = <<>>)

\* Two services, one failing and one succeeding: the call returns success
C5_Witness ==
    /\ mgr_pc = "returned"
    /\ Len(services) = 2
    /\ mgr_result = "true"
    /\ \E s, u \in DOMAIN svc :
           svc[s].result \in {"false", "raised"} /\ svc[u].result = "true"

\* C6: the one Notification goes to every configured service, and
\* send_notification returns only after the send of every service has
\* finished; a service whose send raised or failed leaves the sends of the
\* other services to run to their end.
C6_FanOutJoin ==
    /\ mgr_pc = "gathering" =>
           /\ DOMAIN svc = Configured
           /\ \A s \in Configured : svc[s].notif = notification
    /\ (mgr_pc = "returned" /\ services # <<>>) =>
           /\ DOMAIN svc = Configured
           /\ \A s \in Configured :
                  /\ svc[s].pc = "done"
                  /\ svc[s].send_calls = 1
                  /\ svc[s].notif = notification
                  /\ (services[s] = "retrying" /\ retry_attempts >= 1) =>
                         Len(svc[s].outcomes) >= 1

\* One service raised; the other one went through a retry and delivered
C6_Witness ==
    /\ mgr_pc = "returned"
    /\ \E s, u \in DOMAIN svc :
           /\ svc[s].result = "raised"
           /\ services[u] = "retrying"
           /\ Len(svc[u].outcomes) >= 2
           /\ svc[u].result = "true"

\* C7: send_notification never raises and returns a boolean; each service
\* whose send raised is logged as one error and counts as a failure, so the
\* result is false when no other service succeeded.
C7_ManagerNeverRaises ==
    /\ mgr_result # "raised"
    /\ mgr_pc = "returned" =>
           /\ mgr_result \in {"true", "false"}
           /\ mgr_errors = Cardinality(Raised(svc))
           /\ (\A s \in DOMAIN svc : svc[s].result # "true") => mgr_result = "false"

\* The only service raised: one error line, result False
C7_Witness ==
    /\ mgr_pc = "returned"
    /\ Raised(svc) # {}
    /\ mgr_errors >= 1
    /\ mgr_result = "false"

----------------------------------------------------------------------------
(* Properties of TicketMonitor.check_event *)

\* C8: check_event calls send_notification exactly once when
\* check_for_resale_tickets returned a non-empty list and never otherwise:
\* not when the session could not be opened, not when get_event_info gave no
\* event, not when find_tickets ended on an error or found no reveal button,
\* not for an exception of any step; a notification is only ever sent for
\* verified resale tickets that a scan found.
C8_NotifyOnlyForResale ==
    /\ notify_calls <= 1
    /\ notify_calls = 1 =>
           /\ event # NoEvent
           /\ ft_outcome = "scanned"
           /\ resale_tickets # <<>>
           /\ \A i \in 1..Len(resale_tickets) : resale_tickets[i].is_verified_resale
    /\ ce_pc \in {"awaiting_send", "returned"} =>
           notify_calls = (IF resale_tickets # <<>> THEN 1 ELSE 0)
    /\ (ce_pc = "returned" /\ (event = NoEvent \/ ft_outcome # "scanned")) =>
           notify_calls = 0

\* A check that found two verified tickets and has sent its one notification
C8_Witness ==
    /\ ce_pc = "returned"
    /\ Len(resale_tickets) = 2
    /\ notify_calls = 1
    /\ mgr_pc = "returned"
    /\ mgr_result = "true"
    /\ notification.message.count = 2

----------------------------------------------------------------------------
(* Properties of TicketScraper.check_for_resale_tickets *)

\* C9: check_for_resale_tickets returns exactly the tickets of the
\* find_tickets result whose is_verified_resale is true, in the same order:
\* it is never longer than that result and each of its elements is verified.
C9_PureFilter ==
    ce_pc # "filtering" =>
        LET V == {i \in 1..Len(all_tickets) : all_tickets[i].is_verified_resale}
            Rank(i) == Cardinality({j \in V : j <= i})
        IN  /\ Len(resale_tickets) <= Len(all_tickets)
            /\ Len(resale_tickets) = Cardinality(V)
            /\ \A i \in V : resale_tickets[Rank(i)] = all_tickets[i]
            /\ \A k \in 1..Len(resale_tickets) : resale_tickets[k].is_verified_resale

\* A mixed list: an unverified ticket dropped, two different verified ones kept
C9_Witness ==
    /\ ce_pc # "filtering"
    /\ Len(all_tickets) = 3
    /\ Len(resale_tickets) = 2
    /\ resale_tickets[1].section # resale_tickets[2].section

----------------------------------------------------------------------------
(* Properties of TicketMonitor._wait_until_next_check *)

\* C10 (as amended): for min <= max the computed wait lies in
\* [min*60, max*60] seconds (exactly min*60 when min = max); it is split into
\* chunks and a remainder in 0..9 with chunks*10 + remainder = wait. A wait
\* that is not negative and returns with the shutdown flag unset has slept in
\* total (full 10-second chunks plus the remainder) exactly the computed
\* wait; a negative computed wait (min < 0) runs no chunk and sleeps only the
\* remainder, wait mod 10. (The interval is in twentieths of a minute:
\* minutes = ticks / 20; a sleep counts with the duration asked for.)
C10_WaitWithinBounds ==
    w_pc # "idle" =>
        /\ check_interval[1] <= check_interval[2] =>
               /\ check_interval[1] * 60 <= wait_seconds * 20
               /\ wait_seconds * 20 <= check_interval[2] * 60
        /\ check_interval[1] = check_interval[2] =>
               wait_seconds * 20 = check_interval[1] * 60
        /\ chunks * 10 + remainder = wait_seconds
        /\ 0 <= remainder /\ remainder < 10
        /\ (w_pc = "returned" /\ ~shutdown /\ wait_seconds >= 0) =>
               /\ chunk_i = chunks
               /\ slept = wait_seconds
        /\ (w_pc = "returned" /\ ~shutdown /\ wait_seconds < 0) =>
               /\ chunk_i = 0
               /\ slept = remainder

\* C10 as stated: for every min <= max the wait is in [min*60, max*60] and a
\* wait that no shutdown cut short has slept exactly the computed wait.
C10_WaitAsStated ==
    (w_pc # "idle" /\ check_interval[1] <= check_interval[2]) =>
        /\ check_interval[1] * 60 <= wait_seconds * 20
        /\ wait_seconds * 20 <= check_interval[2] * 60
        /\ check_interval[1] = check_interval[2] =>
               wait_seconds * 20 = check_interval[1] * 60
        /\ (w_pc = "returned" /\ ~shutdown) => slept = wait_seconds

\* An undisturbed wait of two full chunks and a remainder
C10_Witness ==
    /\ w_pc = "returned"
    /\ ~shutdown
    /\ check_interval[1] < check_interval[2]
    /\ chunks = 2
    /\ remainder > 0
    /\ slept = wait_seconds

\* C11: once the shutdown flag is set while _wait_until_next_check is
\* waiting, the wait starts no further sleep, neither a chunk nor the
\* remainder: the next step it takes after the sleep in progress is its
\* return. A sleep in progress is one chunk of 10 seconds or a remainder
\* shorter than that, so the flag is acted on within 10 seconds whatever the
\* configured interval.
C11_ShutdownWithinOneChunk ==
    [][/\ (shutdown /\ w_pc' # w_pc) =>
              w_pc' \notin {"chunk_sleep", "remainder_sleep"}
       /\ (shutdown /\ w_pc = "chunk_loop" /\ w_pc' # w_pc) =>
              w_pc' = "returned"
       /\ w_pc' = "remainder_sleep" => (0 < remainder' /\ remainder' < 10)
       /\ (w_pc = "chunk_sleep" /\ w_pc' # w_pc) => slept' = slept + 10]_vars

\* A wait cut short: the flag came during the first of two chunks, the wait
\* returned after that chunk with the second chunk and the remainder unslept
C11_Witness ==
    /\ shutdown
    /\ w_pc = "returned"
    /\ chunk_i = 1
    /\ chunks = 2
    /\ remainder > 0
    /\ slept = 10

----------------------------------------------------------------------------
(* Properties of TicketMonitor.run *)

\* C12: once the shutdown flag is set, run eventually returns, provided every
\* check and every sleep in progress finishes: from every reachable state of
\* the loop with the flag set (in a check, between two URLs, in the chunked
\* wait, in the cooldown after an error) the loop reaches its stopped state.
C12_ShutdownStopsRun == shutdown ~> (run_pc = "stopped")

\* The loop has stopped on the flag after a cycle that ended in the cooldown
C12_Witness ==
    /\ shutdown
    /\ run_pc = "stopped"
    /\ loop_errors > 0
    /\ check_count = 2

\* C13: an exception raised while check_event checks a URL (in the session
\* setup, in the session cleanup) is caught and logged inside check_event,
\* which returns normally; when check_event is back the for loop moves on to
\* the next list position in the same cycle, run logs no loop error and
\* starts no cooldown: the cooldown is only ever entered from the inter-cycle
\* wait, which follows the for loop as usual.
C13_EventErrorIsolated ==
    /\ [](/\ ce_result # "raised"
          /\ (ce_pc = "returned" /\ setup_state = "raised") => ce_errors >= 1
          /\ (ce_pc = "returned" /\ acquired # {}) => ce_errors >= 1)
    /\ [][/\ (run_pc = "checking" /\ run_pc' # run_pc) =>
                 /\ run_pc' = "for_top"
                 /\ url_i' = url_i + 1
                 /\ check_count' = check_count
                 /\ loop_errors' = loop_errors
          /\ (run_pc' = "cooldown" /\ run_pc # "cooldown") =>
                 run_pc = "after_for"
          /\ (run_pc = "for_top" /\ run_pc' = "after_for" /\ ~shutdown) =>
                 url_i = Len(event_urls) + 1]_vars

\* The check of the first of two URLs caught and logged an exception and
\* has returned to the for loop of the first cycle
C13_Witness ==
    /\ run_pc = "checking"
    /\ check_count = 1
    /\ url_i = 1
    /\ Len(event_urls) = 2
    /\ ce_pc = "returned"
    /\ ce_errors >= 1
    /\ loop_errors = 0

\* C14: within a cycle check_event is called for the configured URLs in the
\* configured order, once per list entry (repeated URLs included) and one at
\* a time: the calls made so far are a prefix of the list, a check is in
\* progress only while run awaits it, and a for loop that ends with the flag
\* unset has called check_event for the whole list. Once the shutdown flag is
\* set no further check_event call is made in the cycle.
C14_SequentialScan ==
    /\ [](/\ Len(checked) <= Len(event_urls)
          /\ checked = SubSeq(event_urls, 1, Len(checked))
          /\ ce_pc # "idle" => (run_pc = "checking" /\ Len(checked) = url_i)
          /\ run_pc = "for_top" => Len(checked) = url_i - 1
          /\ (run_pc = "after_for" /\ ~shutdown) => checked = event_urls)
    /\ [][shutdown => checked' = checked]_vars

\* A list naming the same URL twice: both entries were checked in the cycle
C14_Witness ==
    /\ event_urls = <<"url1", "url1">>
    /\ run_pc = "after_for"
    /\ ~shutdown
    /\ checked = event_urls

\* C17 as stated: an exception that escapes the loop body is logged and
\* followed by a wait of at most 60 seconds, and when the shutdown flag is
\* set during that wait no further time of the cooldown passes: the wait
\* ends at once.
C17_CooldownInterruptible ==
    /\ [](run_pc = "cooldown" =>
              (loop_errors >= 1 /\ cooldown_left <= CooldownSeconds))
    /\ [][(shutdown /\ run_pc = "cooldown" /\ run_pc' = "cooldown") =>
              cooldown_left' = cooldown_left]_vars

----------------------------------------------------------------------------
(* Properties of the browser session of check_event *)

\* C15 as stated: a browser session that check_event opened is closed before
\* check_event returns, on every path out of it: when check_event has
\* returned after a completed setup, cleanup was called once and the browser
\* manager holds no resource any more.
C15_SessionClosedOnReturn ==
    (ce_pc = "returned" /\ setup_state = "ok") =>
        (cleanup_calls = 1 /\ acquired = {})

\* C16 as stated: when the setup of the session raised partway, check_event
\* returns with every resource acquired until then released: no engine and
\* no browser is left running.
C16_PartialSetupReleased ==
    (ce_pc = "returned" /\ setup_state = "raised") => acquired = {}

----------------------------------------------------------------------------
(* Properties of the waits of find_tickets *)

\* C18 as stated: once the shutdown flag is set during a wait of a check,
\* the check stops waiting: find_tickets starts none of its remaining sleeps
\* (the extra wait after navigation, the pauses between steps, the settle
\* wait after the reveal click).
C18_WaitsInterruptible ==
    [][shutdown => ft_sleeps' = ft_sleeps \/ ft_sleeps' = <<>>]_vars

----------------------------------------------------------------------------
(* Properties of the configuration *)

\* What the precedence rule gives field f: the flag, else the environment
\* variable, else the default
Precedence(f) ==
    IF cli_args[f] # Absent THEN cli_args[f]
    ELSE IF environ[f] # Absent THEN environ[f]
    ELSE DefaultConfig[f]

\* C19 as stated: for every configuration field the value in effect is the
\* one given on the command line; when the flag is not given, the value of
\* the environment variable; when neither is given, the default.
C19_ConfigPrecedence ==
    config # NoConfig => \A f \in ConfigFields : config[f] = Precedence(f)

----------------------------------------------------------------------------
(* Properties of the price parse *)

\* The rule of the claim: when both separators occur, the one that occurs
\* last is the decimal point and the other one is removed; else a comma is
\* the decimal point
LaterIsDecimal(text) ==
    LET str == StripPrice(text)
        seps == {i \in 1..Len(str) : str[i] \in {".", ","}}
        last == CHOOSE i \in seps : \A j \in seps : j <= i
    IN  IF Contains(str, ",") /\ Contains(str, ".")
        THEN IF str[last] = ","
             THEN Replace(Remove(str, "."), ",", ".")
             ELSE Remove(str, ",")
        ELSE Replace(str, ",", ".")

RECURSIVE Pow10(_)
Pow10(n) == IF n = 0 THEN 1 ELSE 10 * Pow10(n - 1)

\* Two parse results are the same number (or both no number)
SameNumber(a, b) ==
    LET m == IF a.scale < b.scale THEN b.scale ELSE a.scale
    IN  /\ a.valid = b.valid
        /\ a.valid =>
               a.units * Pow10(m - a.scale) = b.units * Pow10(m - b.scale)

\* C20 as stated: the parsed price is the number read from the stripped
\* text with the later separator as the decimal point when both separators
\* occur (so "1.234,56" and "1,234.56" both give 1234.56), and with a comma
\* as the decimal point when only one separator type occurs.
C20_PriceNormalization ==
    price # NotParsed /\ price_text # <<>> =>
        SameNumber(price, ParseFloat(LaterIsDecimal(price_text)))

----------------------------------------------------------------------------
(* Properties of the loop state *)

\* C24: the shutdown flag is set once and stays set: no step clears it, a
\* second signal leaves it set, and the step that sets it changes nothing
\* else; the signal can arrive at every position of the loop.
C24_ShutdownMonotone ==
    [][/\ shutdown => shutdown'
       /\ shutdown' # shutdown =>
              /\ shutdown'
              /\ UNCHANGED <<notifVars, checkVars, runVars, otherVars>>
              /\ UNCHANGED <<check_interval, w_pc, wait_seconds, chunks,
                             remainder, chunk_i, slept>>]_vars

\* The flag was set during the second cycle, while a check was in progress
C24_Witness ==
    /\ shutdown
    /\ run_pc = "checking"
    /\ check_count = 2
    /\ ce_pc = "find_tickets"

\* C25: the check counter is 0 when run starts, never decreases, and grows
\* by exactly 1 exactly when a loop iteration starts, cycles that end in the
\* error cooldown included; a run without event URLs stops with the counter
\* at 0.
C25_CheckCounter ==
    /\ [](/\ run_pc = "start" => check_count = 0
          /\ (run_pc = "stopped" /\ event_urls = <<>>) => check_count = 0
          /\ loop_errors <= check_count)
    /\ [][/\ check_count' \in {check_count, check_count + 1}
          /\ check_count' = check_count + 1
                 <=> (run_pc = "while_top" /\ run_pc' = "for_top")]_vars

\* A second cycle has started after the first one ended in the cooldown
C25_Witness ==
    /\ check_count = 2
    /\ loop_errors = 1
    /\ run_pc = "for_top"

\* C26 as stated: during the whole run at most one browser session is open:
\* when check_event enters a new session, nothing of an earlier session is
\* still open.
C26_OneSessionAtATime == (run_pc = "checking" /\ ce_pc = "entering") => acquired = {}

----------------------------------------------------------------------------
(* Properties of find_tickets *)

\* C22 as stated: every Ticket that find_tickets returns refers to the
\* Event of the checked URL; its event field is never absent.
C22_TicketHasEvent ==
    ft_pc = "done" =>
        \A i \in 1..Len(all_tickets) : all_tickets[i].event = event.url

\* The screenshot that find_tickets attempts when no reveal button was clicked
NotFoundShots ==
    {i \in 1..Len(ft_shots) : ft_shots[i][1] = "ticket_button_not_found.png"}

SettleWaitsStarted ==
    {i \in 1..Len(ft_sleeps) : ft_sleeps[i][1] = "settle_wait"}

\* C27: when no reveal selector could be clicked, find_tickets attempts one
\* screenshot and returns an empty list without raising; no settle wait is
\* started and the listing is not scanned.
C27_NotFoundEndsCheck ==
    /\ ft_outcome = "button_not_found" => NotFoundShots # {}
    /\ NotFoundShots # {} =>
           /\ ft_pc = "done"
           /\ ft_outcome = "button_not_found"
           /\ all_tickets = <<>>
           /\ Len(ft_shots) = 1
           /\ SettleWaitsStarted = {}
           /\ ft_items = <<>>
           /\ ft_parsed = 0

\* No button was clicked and the screenshot failed as well
C27_Witness ==
    /\ ft_pc = "done"
    /\ ft_outcome = "button_not_found"
    /\ ft_shots = << <<"ticket_button_not_found.png", FALSE>> >>
    /\ Len(ft_sleeps) = 4

C29_FindTicketsNeverRaises ==
    /\ ft_pc # "raised"
    /\ ft_outcome = "error" =>
           /\ ft_pc = "done"
           /\ all_tickets = <<>>
           /\ Len(ft_shots) = 1
           /\ ft_shots[1][1] = "error_occurred.png"

\* The reveal step raised after the stepper pause and the screenshot failed
C29_Witness ==
    /\ ft_pc = "done"
    /\ ft_outcome = "error"
    /\ ft_shots = << <<"error_occurred.png", FALSE>> >>
    /\ Len(ft_sleeps) = 4

----------------------------------------------------------------------------
(* Properties of the listing scan *)

\* The li elements with at least one span whose text is the marker text
MarkerLis ==
    {i \in 1..Len(li_elements) :
        \E j \in 1..Len(li_elements[i].spans) :
            StripText(li_elements[i].spans[j]) = MarkerText}

\* The k-th of them in page order
KthMarkerLi(k) ==
    CHOOSE i \in MarkerLis : Cardinality({j \in MarkerLis : j <= i}) = k

----------------------------------------------------------------------------
(* Properties of the alert text *)

\* The scenario: tickets {section A, 99.99} and {section B, 149.99}
ScenarioTickets ==
    /\ Len(alert_call.tickets) = 2
    /\ alert_call.tickets[1].section = "A"
    /\ alert_call.tickets[1].price = [known |-> TRUE, mills |-> 99990]
    /\ alert_call.tickets[2].section = "B"
    /\ alert_call.tickets[2].price = [known |-> TRUE, mills |-> 149990]

----------------------------------------------------------------------------
(* Properties of the detailed parse *)

\* C23 as stated: a container with a section and a price but without the
\* marker span and without a badge match gives a Ticket with that section
\* and price, not verified.
C23_UnverifiedTicketKept ==
    (/\ pe_result.parsed
     /\ pe_element.section # "none"
     /\ pe_element.price_text # <<"none">>
     /\ ~pe_element.marker_span
     /\ ~pe_element.badge) =>
        /\ pe_result.made
        /\ pe_result.section = pe_element.section
        /\ pe_result.price = PriceOf(pe_element.price_text)
        /\ ~pe_result.is_verified_resale

----------------------------------------------------------------------------
(* Properties of the ntfy delivery *)

\* The attempts of the task t that the endpoint answered with a non-2xx status
Rejected(t) ==
    {i \in 1..Len(t.responses) : ~IsSuccess(t.responses[i][2])}

\* C33: a non-2xx answer of the push endpoint is a delivery failure of that
\* attempt. _send_impl raises; send catches it (its result is never an
\* exception); with attempts left it sleeps retry_delay * attempt seconds and
\* invokes _send_impl again, on the last attempt it returns False, and
\* _send_impl is invoked at most retry_attempts times, as for any failure.
C33_HttpErrorIsRetried ==
    \A s \in RetryingTasks :
        LET t == svc[s]
        IN  \A i \in Rejected(t) :
                LET a == t.responses[i][1]
                IN  /\ t.outcomes[a] = "raise"
                    /\ t.result # "raised"
                    /\ ImplCalls(t) <= retry_attempts
                    /\ a < retry_attempts =>
                           /\ Len(t.sleeps) >= a
                           /\ t.sleeps[a] = retry_delay * a
                           /\ (t.pc # "sleeping" \/ Len(t.outcomes) > a) =>
                                  ImplCalls(t) >= a + 1
                    /\ a = retry_attempts =>
                           /\ t.pc = "done"
                           /\ t.result = "false"
                           /\ Len(t.sleeps) = a - 1
                           /\ ImplCalls(t) = a

\* A 404 on the first attempt, a 500 on the second, then a 200: two sleeps
C33_Witness ==
    \E s \in RetryingTasks :
        /\ retry_attempts = 3
        /\ retry_delay = 5
        /\ svc[s].pc = "done"
        /\ svc[s].responses = <<<<1, 404>>, <<2, 500>>, <<3, 200>>>>
        /\ svc[s].sleeps = <<5, 10>>
        /\ svc[s].result = "true"

----------------------------------------------------------------------------
(* Properties of NotificationService.send: results that are not exceptions *)

\* C38: if _send_impl returns a false value without raising, send returns
\* that failure at once: the attempt that returned false is the last
\* invocation of _send_impl, no sleep follows it and nothing is logged for
\* it, also when attempts remain.
C38_FalseIsNotRetried ==
    \A s \in RetryingTasks :
        LET t == svc[s]
            k == Len(t.outcomes)
        IN  \A i \in 1..k :
                t.outcomes[i] = "false" =>
                    /\ i = k
                    /\ t.pc = "done"
                    /\ t.result = "false"
                    /\ ImplCalls(t) = k
                    /\ Len(t.sleeps) = k - 1
                    /\ t.warnings = k - 1
                    /\ t.errors = 0

\* Three attempts allowed, the first one returns False: send is done
C38_Witness ==
    \E s \in RetryingTasks :
        /\ retry_attempts = 3
        /\ svc[s].pc = "done"
        /\ svc[s].outcomes = <<"false">>
        /\ svc[s].sleeps = <<>>
        /\ svc[s].result = "false"

\* C39: with retry_attempts <= 0 the loop of send has no iteration: send
\* returns False without ever invoking _send_impl and without sleeping.
C39_NoAttemptsConfigured ==
    retry_attempts <= 0 =>
        \A s \in RetryingTasks :
            LET t == svc[s]
            IN  /\ ImplCalls(t) = 0
                /\ t.sleeps = <<>>
                /\ t.pc \in {"pending", "done"}
                /\ t.pc = "done" => t.result = "false"

\* send ran with retry_attempts = 0 (and with -1) and gave False
C39_Witness ==
    \E s \in RetryingTasks :
        /\ retry_attempts <= 0
        /\ svc[s].pc = "done"
        /\ svc[s].send_calls = 1
        /\ svc[s].result = "false"
        /\ mgr_pc = "returned"
        /\ mgr_result = "false"

----------------------------------------------------------------------------
(* Properties of _click_find_tickets *)

\* C31: _click_find_tickets probes its selectors in the listed order, each at
\* most once. A selector that is not visible or raises (in is_visible, in the
\* scroll or in the click) is a miss and the next selector is probed. The
\* first click that returns ends the search: it is the only click that
\* returns, no later selector is probed and the result is True. The result is
\* False only when every selector was probed and none was clicked; the call
\* never raises.
C31_FirstClickShortCircuits ==
    /\ cf_tried = [k \in 1..Len(cf_tried) |-> k]
    /\ Len(cf_tried) <= NumSelectors
    /\ cf_clicks <= 1
    /\ cf_clicks = 1 <=> cf_pc \in {"post_click_wait", "done"} /\ cf_result # "false"
    /\ cf_clicks = 1 =>
           /\ cf_clicked_at = Len(cf_tried)
           /\ cf_click_calls >= 1
    /\ cf_pc = "probing" =>
           /\ cf_i = Len(cf_tried) + 1
           /\ cf_clicks = 0
    /\ cf_pc = "done" => cf_result \in {"true", "false"}
    /\ cf_result = "true" => cf_clicks = 1
    /\ cf_result = "false" =>
           /\ Len(cf_tried) = NumSelectors
           /\ cf_clicks = 0

\* test_click_find_tickets_success: the first selector is not visible, the
\* second is clicked; two probes, one click, True
C31_Witness ==
    /\ cf_pc = "done"
    /\ cf_result = "true"
    /\ cf_tried = <<1, 2>>
    /\ cf_clicks = 1
    /\ cf_click_calls = 1

----------------------------------------------------------------------------
(* Properties of the alert text, for any tickets *)

\* C32 as stated: the composed alert has the overall ticket count, a numbered
\* line for each of the first 5 tickets in order, with the section, the price
\* with two decimals or "Price not available" exactly when the ticket has no
\* price, and the row when the ticket has one; a note with count minus 5
\* exactly when more than 5 tickets were found; and the event URL. It is
\* dispatched with priority 4 and the tags ticket and warning.
C32_AlertContents ==
    alert_message # NoMessage =>
        LET tickets == alert_call.tickets
            n == Len(tickets)
        IN  /\ alert_message.count = n
            /\ alert_message.url = alert_call.event.url
            /\ Len(alert_message.lines) = (IF n < 5 THEN n ELSE 5)
            /\ alert_message.more = (IF n > 5 THEN n - 5 ELSE 0)
            /\ \A i \in 1..Len(alert_message.lines) :
                   LET line == alert_message.lines[i]
                   IN  /\ line.index = i
                       /\ line.section = tickets[i].section
                       /\ line.row = tickets[i].row
                       /\ line.price = <<"Price not available">>
                              <=> ~tickets[i].price.known
                       /\ tickets[i].price.known =>
                              /\ Len(line.price) >= 5
                              /\ line.price[1] = "E"
                              /\ line.price[Len(line.price) - 2] = "."
            /\ AlertFor(alert_call.event, tickets).priority = 4
            /\ AlertFor(alert_call.event, tickets).tags = {"ticket", "warning"}

----------------------------------------------------------------------------
(* Properties of the monitor loop once the shutdown flag is set *)

C35_CheckCompletesAfterShutdown ==
    /\ []((run_pc = "checking" /\ ce_pc = "returned") =>
             /\ setup_state = "raised" \/ cleanup_calls = 1
             /\ resale_tickets # <<>> => notify_calls = 1)
    /\ (shutdown /\ run_pc = "checking")
           ~> (run_pc = "checking" /\ ce_pc = "returned")
    /\ (shutdown /\ run_pc = "checking" /\ ce_pc = "handle")
           ~> (shutdown /\ run_pc = "checking" /\ ce_pc = "awaiting_send"
                 /\ notify_calls = 1)

\* The flag is set and the check that found tickets has notified and returned
C35_Witness ==
    /\ shutdown
    /\ run_pc = "checking"
    /\ ce_pc = "returned"
    /\ resale_tickets # <<>>
    /\ notify_calls = 1
    /\ cleanup_calls = 1
    /\ acquired = {}

----------------------------------------------------------------------------
(* Properties of the monitor loop over several cycles *)

\* C36: the monitor keeps no record of what it reported. Every check that
\* ends with verified resale tickets has dispatched exactly one notification
\* (and a check without them none), whatever earlier checks of the same cycle
\* or of earlier cycles found: over the run, the notifications dispatched are
\* as many as the checks that found tickets. An event that yields tickets in
\* k consecutive cycles is notified in each of them, and a URL listed m times
\* that yields tickets each time is notified m times in the cycle.
C36_NoDeduplication ==
    /\ notified_count = found_count
    /\ (run_pc = "checking" /\ ce_pc = "returned") =>
           notify_calls = (IF resale_tickets # <<>> THEN 1 ELSE 0)

\* The same URL listed twice, tickets found by each of the four checks of
\* two cycles: four notifications
C36_Witness ==
    /\ event_urls = <<"url1", "url1">>
    /\ check_count = 2
    /\ run_pc = "after_for"
    /\ found_count = 4
    /\ notified_count = 4

----------------------------------------------------------------------------
(* Properties of the monitor loop under cancellation *)

\* C40 as stated: a cancellation delivered during the post-error cooldown is
\* swallowed: it ends the cooldown and the loop goes back to its while
\* condition, so that it stops afterwards only on the shutdown flag; a
\* cancellation delivered during a check or during the inter-cycle wait stops
\* the loop.
C40_CancellationStopsOutsideCooldown ==
    /\ [](cancelled \in {"in_check", "in_wait"} => run_pc = "stopped")
    /\ []((cancelled = "in_cooldown" /\ run_pc = "stopped") => shutdown)
    /\ [][(cancelled = "none" /\ cancelled' = "in_cooldown") =>
             (run_pc' = "while_top" /\ cooldown_left' = 0)]_vars
====
